---- MODULE Spec2Model ----
(***************************************************************************)
(* A model of nesteddict.NestedDictFS: a nested key/value store kept as a  *)
(* directory tree.  Directories are subtrees, files are leaves, and every  *)
(* handle looks entries up through an LRU cache whose entries are checked  *)
(* against os.stat.                                                        *)
(*                                                                         *)
(* Paths are sequences of segments below the directory of the store; the   *)
(* directory that holds the store is outside the model and always exists.  *)
(***************************************************************************)
EXTENDS Integers, Sequences, FiniteSets, TLC

(***************************************************************************)
(* Bounds of the model.                                                    *)
(***************************************************************************)
MaxDepth == 2
MaxClock == 2
MaxFileLen == 2
CacheSize == 2

\* segments: two entries at the top of the store, one name below them
TopNames == {"a", "b"}
SubNames == {"x"}
Names == TopNames \cup SubNames
Ints == {1, 2}

Paths ==
    {p \in UNION {[1..n -> Names] : n \in 0..MaxDepth} :
        \A i \in 1..Len(p) : IF i = 1 THEN p[i] \in TopNames ELSE p[i] \in SubNames}

(***************************************************************************)
(* Values: what a leaf decodes to, what get returns.                       *)
(***************************************************************************)
None == [t |-> "none"]
IntVal(i) == [t |-> "int", i |-> i]
ListVal(s) == [t |-> "list", items |-> s]
ChildVal(p, m) == [t |-> "child", path |-> p, mode |-> m]

IsChildVal(v) == v.t = "child"

PutValues == {None} \cup {IntVal(i) : i \in Ints}

(***************************************************************************)
(* The filesystem: every path is absent, a file or a directory.  A file    *)
(* holds the stream of packed objects written to it; stamp stands for the  *)
(* times of os.stat (whole seconds).                                       *)
(***************************************************************************)
NoEntry == [kind |-> "none", data |-> <<>>, stamp |-> 0]
FileEntry(d, t) == [kind |-> "file", data |-> d, stamp |-> t]
DirEntry(t) == [kind |-> "dir", data |-> <<>>, stamp |-> t]

Parent(p) == SubSeq(p, 1, Len(p) - 1)
Basename(p) == p[Len(p)]
IsPrefix(p, q) == Len(p) <= Len(q) /\ SubSeq(q, 1, Len(p)) = p
IsStrictPrefix(p, q) == Len(p) < Len(q) /\ IsPrefix(p, q)
Rebase(q, src, dst) == dst \o SubSeq(q, Len(src) + 1, Len(q))

isdir(f, p) == f[p].kind = "dir"
isfile(f, p) == f[p].kind = "file"
exists(f, p) == f[p].kind # "none"
listdir(f, p) == {q \in Paths : Len(q) = Len(p) + 1 /\ Parent(q) = p /\ exists(f, q)}

\* os.stat: None (FileNotFoundError) for an absent path
NoStat == [kind |-> "none"]
stat(f, p) == IF exists(f, p) THEN [kind |-> f[p].kind, stamp |-> f[p].stamp] ELSE NoStat

\* a directory whose set of entries changed gets the current time
Touch(f, g, t) ==
    [p \in Paths |->
        IF isdir(g, p) /\ isdir(f, p) /\ listdir(f, p) # listdir(g, p)
        THEN [g[p] EXCEPT !.stamp = t]
        ELSE g[p]]

OsOk(g) == [err |-> "ok", fs |-> g]
OsErr(e, g) == [err |-> e, fs |-> g]

\* as makedirs, making the directories whatever is in the way
makedirs_through_files(f, p, t) ==
    OsOk(Touch(f, [q \in Paths |->
            IF IsPrefix(q, p) /\ ~isdir(f, q) /\ q # <<>> THEN DirEntry(t) ELSE f[q]], t))

\* os.makedirs(p, exist_ok=True)
makedirs(f, p, t) ==
    IF \E i \in 0..Len(p) : isfile(f, SubSeq(p, 1, i))
    THEN OsErr("OSError", f)
    ELSE OsOk(Touch(f, [q \in Paths |->
                 IF IsPrefix(q, p) /\ ~exists(f, q) THEN DirEntry(t) ELSE f[q]], t))

\* os.makedirs(os.path.dirname(p), exist_ok=True); the directory holding
\* the store is there
makedirs_dirname(f, p, t) == IF p = <<>> THEN OsOk(f) ELSE makedirs(f, Parent(p), t)

\* open(p, 'wb' / 'ab') and one write_method call
write(f, p, obj, append, t) ==
    IF isdir(f, p) \/ (p # <<>> /\ ~isdir(f, Parent(p)))
    THEN OsErr("OSError", f)
    ELSE LET old == IF append /\ isfile(f, p) THEN f[p].data ELSE <<>>
         IN  OsOk(Touch(f, [f EXCEPT ![p] = FileEntry(Append(old, obj), t)], t))

\* read_method: one object, or the list of all objects on extra data
read(f, p) ==
    IF Len(f[p].data) = 1 THEN f[p].data[1] ELSE ListVal(f[p].data)

\* shutil.rmtree / os.remove
rmtree(f, p, t) ==
    Touch(f, [q \in Paths |-> IF IsPrefix(p, q) THEN NoEntry ELSE f[q]], t)

remove(f, p, t) == Touch(f, [f EXCEPT ![p] = NoEntry], t)

\* os.rename(src, dst): the entry and everything below it changes place
rename(f, src, dst, t) ==
    IF src = dst THEN f
    ELSE Touch(f, [q \in Paths |->
            IF q = dst THEN [f[src] EXCEPT !.stamp = t]
            ELSE IF IsPrefix(dst, q)
                 THEN (IF Rebase(q, dst, src) \in Paths THEN f[Rebase(q, dst, src)] ELSE NoEntry)
            ELSE IF IsPrefix(src, q) THEN NoEntry
            ELSE f[q]], t)

\* shutil.copytree(src, dst): the entries of src are listed before dst is made
copytree(f, src, dst, t) ==
    IF ~isdir(f, src) \/ exists(f, dst) THEN OsErr("OSError", f)
    ELSE OsOk(Touch(f, [q \in Paths |->
            IF IsPrefix(dst, q) /\ Rebase(q, dst, src) \in Paths /\ exists(f, Rebase(q, dst, src))
            THEN [f[Rebase(q, dst, src)] EXCEPT !.stamp = t]
            ELSE f[q]], t))

\* shutil.copy(src, dst) of a file
copy(f, src, dst, t) ==
    LET real == IF isdir(f, dst) THEN Append(dst, Basename(src)) ELSE dst
    IN  IF real \notin Paths THEN OsErr("OutOfBounds", f)
        ELSE IF ~isfile(f, src) \/ real = src \/ isdir(f, real) THEN OsErr("OSError", f)
        ELSE OsOk(Touch(f, [f EXCEPT ![real] = FileEntry(f[src].data, t)], t))

\* shutil.move(src, dst): os.rename, else copy and delete
move(f, src, dst, t) ==
    LET real == IF isdir(f, dst) /\ src # dst THEN Append(dst, Basename(src)) ELSE dst
    IN  IF real \notin Paths THEN OsErr("OutOfBounds", f)
        ELSE IF isdir(f, dst) /\ src # dst /\ exists(f, real) THEN OsErr("OSError", f)
        ELSE IF ~exists(f, src) THEN OsErr("OSError", f)
        ELSE IF isdir(f, src) /\ IsStrictPrefix(src, real) THEN OsErr("OSError", f)
        ELSE IF isdir(f, src) /\ isfile(f, real) THEN OsErr("OSError", f)
        ELSE OsOk(rename(f, src, real, t))

(***************************************************************************)
(* Handles.  A handle has a root path, a mode and a cache; the handles of  *)
(* one cache id share that cache.                                          *)
(***************************************************************************)
Handle(r, m, c) == [root |-> r, mode |-> m, cache |-> c]

\* self.writable = any(k in mode for k in 'wc')
writable(h) == h.mode \in {"w", "c"}

_unsafe_key_path(h, item) == h.root \o item

(***************************************************************************)
(* The LRU cache: entries from the most to the least recently used.        *)
(***************************************************************************)
CacheIdx(c, p) == {i \in 1..Len(c) : c[i].path = p}
CacheHas(c, p) == CacheIdx(c, p) # {}
CacheAt(c, p) == c[CHOOSE i \in CacheIdx(c, p) : TRUE]
CacheWithout(c, p) == SelectSeq(c, LAMBDA e : e.path # p)

\* cache.get(path, ...): a hit makes the entry the most recently used
CacheUse(c, p) == IF CacheHas(c, p) THEN <<CacheAt(c, p)>> \o CacheWithout(c, p) ELSE c

\* del cache[path]
CacheDel(c, p) == CacheWithout(c, p)

\* LRU(cache_size or 128): the capacity of a cache; 0 stands for no size given
DefaultCacheSize == 128
LRU(cache_size) == IF cache_size = 0 THEN DefaultCacheSize ELSE cache_size

\* cache[path] = (stat, value): the least recently used entry makes room
CacheSet(c, p, st, v) ==
    LET n == <<[path |-> p, stat |-> st, val |-> v]>> \o CacheWithout(c, p)
    IN  IF Len(n) > LRU(CacheSize) THEN SubSeq(n, 1, LRU(CacheSize)) ELSE n

(***************************************************************************)
(* Key verification and lookups.  An operation yields a record: res is     *)
(* "ok" or the error raised, ret the value returned.                       *)
(***************************************************************************)
\* k in ('.', '..') or os.path.sep in k: "a/b" is the segment that holds a separator
BadSegments == {".", "..", "a/b"}

\* in the key of a call that is no search: a slice, an Ellipsis, a Pattern
SearchTerms == {"<slice>", "<ellipsis>", "<pattern>"}

\* the elements of a key that the loop over the key stops at
Offending(item) == {i \in 1..Len(item) : item[i] \in SearchTerms \cup BadSegments}
FirstOffending(item) == CHOOSE i \in Offending(item) : \A j \in Offending(item) : i <= j

\* as _internal_verify_item, without the walk over the prefixes of the key
_internal_verify_item_no_prefix(f, h, item) ==
    IF Offending(item) # {}
    THEN (IF item[FirstOffending(item)] \in SearchTerms THEN "NoSearchTerm" ELSE "InvalidKey")
    ELSE "ok"

\* as _internal_verify_item, with one error for every element it stops at
_internal_verify_item_one_error(f, h, item) ==
    IF Offending(item) # {} THEN "NoSearchTerm"
    ELSE IF \E i \in 1..(Len(item) - 1) : isfile(f, _unsafe_key_path(h, SubSeq(item, 1, i)))
    THEN "DataSubItem"
    ELSE "ok"

\* the first search term or malformed segment of the key, else the first
\* strict prefix of the key that is a file
_internal_verify_item(f, h, item) ==
    IF Offending(item) # {}
    THEN (IF item[FirstOffending(item)] \in SearchTerms THEN "NoSearchTerm" ELSE "InvalidKey")
    ELSE IF \E i \in 1..(Len(item) - 1) : isfile(f, _unsafe_key_path(h, SubSeq(item, 1, i)))
    THEN "DataSubItem"
    ELSE "ok"

\* self.__class__(item_path, mode=self.mode if not create else 'c', shared_cache=self.cache)
_internal_get_child(h, item_path, create) ==
    ChildVal(item_path, IF create THEN "c" ELSE h.mode)

Ret(v) == [res |-> "ok", ret |-> v]
Raise(e) == [res |-> e, ret |-> None]

_internal_get_direct(f, h, item_path, default_value, raise_err, include_child, include_data, create_child) ==
    IF isdir(f, item_path)
    THEN (IF ~(include_child \/ create_child) THEN Raise("NotIncludeChild")
          ELSE Ret(_internal_get_child(h, item_path, FALSE)))
    ELSE IF isfile(f, item_path)
    THEN (IF ~include_data THEN Raise("NotIncludeData") ELSE Ret(read(f, item_path)))
    ELSE IF create_child
    THEN (IF writable(h) THEN Ret(_internal_get_child(h, item_path, TRUE))
          ELSE Raise("AccessViolation"))
    ELSE IF raise_err THEN Raise("NoSuchKey")
    ELSE Ret(default_value)

\* the result and the cache it leaves
CRet(v, c) == [res |-> "ok", ret |-> v, cache |-> c]
CRaise(e, c) == [res |-> e, ret |-> None, cache |-> c]

\* as _internal_get_cached, trusting a cached entry without comparing its stat
_internal_get_cached_no_stat(f, c, h, item_path, default_value, raise_err, include_child, include_value, create_child) ==
    LET hit == CacheHas(c, item_path)
        c1 == CacheUse(c, item_path)
        cur_stat == stat(f, item_path)
        d == _internal_get_direct(f, h, item_path, default_value, raise_err,
                                  include_child, include_value, create_child)
    IN  IF hit
        THEN LET ret_value == CacheAt(c, item_path).val
             IN  IF IsChildVal(ret_value) /\ ~include_child THEN CRaise("NotIncludeChild", c1)
                 ELSE IF ~IsChildVal(ret_value) /\ ~include_value /\ ret_value # default_value
                 THEN CRaise("NotIncludeData", c1)
                 ELSE CRet(ret_value, c1)
        ELSE IF d.res # "ok" THEN CRaise(d.res, c1)
        ELSE LET c3 == IF d.ret # default_value /\ cur_stat # NoStat
                       THEN CacheSet(c1, item_path, cur_stat, d.ret) ELSE c1
             IN  IF IsChildVal(d.ret) /\ ~include_child THEN CRaise("NotIncludeChild", c3)
                 ELSE IF ~IsChildVal(d.ret) /\ ~include_value /\ d.ret # default_value
                 THEN CRaise("NotIncludeData", c3)
                 ELSE CRet(d.ret, c3)

\* as _internal_get_cached, trusting a cached entry when os.stat finds nothing
_internal_get_cached_keeps_absent(f, c, h, item_path, default_value, raise_err, include_child, include_value, create_child) ==
    LET hit == CacheHas(c, item_path)
        c1 == CacheUse(c, item_path)
        cur_stat == stat(f, item_path)
        stale == hit /\ cur_stat # NoStat /\ CacheAt(c, item_path).stat # cur_stat
        c2 == IF stale THEN CacheDel(c1, item_path) ELSE c1
        d == _internal_get_direct(f, h, item_path, default_value, raise_err,
                                  include_child, include_value, create_child)
    IN  IF hit /\ ~stale
        THEN LET ret_value == CacheAt(c, item_path).val
             IN  IF IsChildVal(ret_value) /\ ~include_child THEN CRaise("NotIncludeChild", c2)
                 ELSE IF ~IsChildVal(ret_value) /\ ~include_value /\ ret_value # default_value
                 THEN CRaise("NotIncludeData", c2)
                 ELSE CRet(ret_value, c2)
        ELSE IF d.res # "ok" THEN CRaise(d.res, c2)
        ELSE LET c3 == IF d.ret # default_value /\ cur_stat # NoStat
                       THEN CacheSet(c2, item_path, cur_stat, d.ret) ELSE c2
             IN  IF IsChildVal(d.ret) /\ ~include_child THEN CRaise("NotIncludeChild", c3)
                 ELSE IF ~IsChildVal(d.ret) /\ ~include_value /\ d.ret # default_value
                 THEN CRaise("NotIncludeData", c3)
                 ELSE CRet(d.ret, c3)

\* as _internal_get_cached, looking into the cache without using the entry
_internal_get_cached_no_use(f, c, h, item_path, default_value, raise_err, include_child, include_value, create_child) ==
    LET hit == CacheHas(c, item_path)
        c1 == c
        cur_stat == stat(f, item_path)
        stale == hit /\ CacheAt(c, item_path).stat # cur_stat
        c2 == IF stale THEN CacheDel(c1, item_path) ELSE c1
        d == _internal_get_direct(f, h, item_path, default_value, raise_err,
                                  include_child, include_value, create_child)
    IN  IF hit /\ ~stale
        THEN LET ret_value == CacheAt(c, item_path).val
             IN  IF IsChildVal(ret_value) /\ ~include_child THEN CRaise("NotIncludeChild", c2)
                 ELSE IF ~IsChildVal(ret_value) /\ ~include_value /\ ret_value # default_value
                 THEN CRaise("NotIncludeData", c2)
                 ELSE CRet(ret_value, c2)
        ELSE IF d.res # "ok" THEN CRaise(d.res, c2)
        ELSE LET c3 == IF d.ret # default_value /\ cur_stat # NoStat
                       THEN CacheSet(c2, item_path, cur_stat, d.ret) ELSE c2
             IN  IF IsChildVal(d.ret) /\ ~include_child THEN CRaise("NotIncludeChild", c3)
                 ELSE IF ~IsChildVal(d.ret) /\ ~include_value /\ d.ret # default_value
                 THEN CRaise("NotIncludeData", c3)
                 ELSE CRet(d.ret, c3)

_internal_get_cached(f, c, h, item_path, default_value, raise_err, include_child, include_value, create_child) ==
    LET hit == CacheHas(c, item_path)
        c1 == CacheUse(c, item_path)
        cur_stat == stat(f, item_path)
        stale == hit /\ CacheAt(c, item_path).stat # cur_stat
        c2 == IF stale THEN CacheDel(c1, item_path) ELSE c1
        d == _internal_get_direct(f, h, item_path, default_value, raise_err,
                                  include_child, include_value, create_child)
    IN  IF hit /\ ~stale
        THEN LET ret_value == CacheAt(c, item_path).val
             IN  IF IsChildVal(ret_value) /\ ~include_child THEN CRaise("NotIncludeChild", c2)
                 ELSE IF ~IsChildVal(ret_value) /\ ~include_value /\ ret_value # default_value
                 THEN CRaise("NotIncludeData", c2)
                 ELSE CRet(ret_value, c2)
        ELSE IF d.res # "ok" THEN CRaise(d.res, c2)
        ELSE LET c3 == IF d.ret # default_value /\ cur_stat # NoStat
                       THEN CacheSet(c2, item_path, cur_stat, d.ret) ELSE c2
             IN  IF IsChildVal(d.ret) /\ ~include_child THEN CRaise("NotIncludeChild", c3)
                 ELSE IF ~IsChildVal(d.ret) /\ ~include_value /\ d.ret # default_value
                 THEN CRaise("NotIncludeData", c3)
                 ELSE CRet(d.ret, c3)

\* get_direct: key_path verifies the key; the empty key is the handle itself;
\* the cache is not looked at
get_direct(f, h, item, default_value, raise_err, include_child, include_data, create_child) ==
    IF _internal_verify_item(f, h, item) # "ok" THEN Raise(_internal_verify_item(f, h, item))
    ELSE IF item = <<>> THEN Ret(ChildVal(h.root, h.mode))
    ELSE _internal_get_direct(f, h, _unsafe_key_path(h, item), default_value, raise_err,
                              include_child \/ create_child, include_data, create_child)

\* get_cached: key_path verifies the key; the empty key is the handle itself
get_cached(f, c, h, item, default_value, raise_err, include_child, include_data, create_child) ==
    IF _internal_verify_item(f, h, item) # "ok" THEN CRaise(_internal_verify_item(f, h, item), c)
    ELSE IF item = <<>> THEN CRet(ChildVal(h.root, h.mode), c)
    ELSE _internal_get_cached(f, c, h, _unsafe_key_path(h, item), default_value, raise_err,
                              include_child, include_data, create_child)

get(f, c, h, item) == get_cached(f, c, h, item, None, FALSE, TRUE, TRUE, FALSE)
get_child(f, c, h, item) == get_cached(f, c, h, item, None, TRUE, TRUE, FALSE, TRUE)

(***************************************************************************)
(* Modifiers.  They yield the error raised, the filesystem and the cache   *)
(* they leave.                                                             *)
(***************************************************************************)
MRet(g, c) == [res |-> "ok", ret |-> None, fs |-> g, cache |-> c]
MRaise(e, g, c) == [res |-> e, ret |-> None, fs |-> g, cache |-> c]

\* as _internal_put, leaving alone a leaf the cache holds
_internal_put_unless_cached(f, c, h, item, value, append, t) ==
    LET item_path == _unsafe_key_path(h, item)
        v == _internal_verify_item(f, h, item)
        m == makedirs_dirname(f, item_path, t)
        c1 == CacheDel(c, item_path)
        w == write(m.fs, item_path, value, append, t)
    IN  IF ~writable(h) THEN MRaise("AccessViolation", f, c)
        ELSE IF IsChildVal(value) THEN MRaise("ValueError", f, c)
        ELSE IF v # "ok" THEN MRaise(v, f, c)
        ELSE IF isdir(f, item_path) THEN MRaise("DataOverChild", f, c)
        ELSE IF CacheHas(c, item_path) THEN MRet(f, c1)
        ELSE IF m.err # "ok" THEN MRaise(m.err, m.fs, c)
        ELSE IF w.err # "ok" THEN MRaise(w.err, w.fs, c1)
        ELSE MRet(w.fs, c1)

\* as _internal_put, leaving the cache entry of the path in place
_internal_put_keeps_cache(f, c, h, item, value, append, t) ==
    LET item_path == _unsafe_key_path(h, item)
        v == _internal_verify_item(f, h, item)
        m == makedirs_dirname(f, item_path, t)
        w == write(m.fs, item_path, value, append, t)
    IN  IF ~writable(h) THEN MRaise("AccessViolation", f, c)
        ELSE IF IsChildVal(value) THEN MRaise("ValueError", f, c)
        ELSE IF v # "ok" THEN MRaise(v, f, c)
        ELSE IF isdir(f, item_path) THEN MRaise("DataOverChild", f, c)
        ELSE IF m.err # "ok" THEN MRaise(m.err, m.fs, c)
        ELSE IF w.err # "ok" THEN MRaise(w.err, w.fs, c)
        ELSE MRet(w.fs, c)

\* as _internal_put, without the check for a directory at the path
_internal_put_over_child(f, c, h, item, value, append, t) ==
    LET item_path == _unsafe_key_path(h, item)
        v == _internal_verify_item(f, h, item)
        m == makedirs_dirname(f, item_path, t)
        c1 == CacheDel(c, item_path)
        w == write(m.fs, item_path, value, append, t)
    IN  IF ~writable(h) THEN MRaise("AccessViolation", f, c)
        ELSE IF IsChildVal(value) THEN MRaise("ValueError", f, c)
        ELSE IF v # "ok" THEN MRaise(v, f, c)
        ELSE IF m.err # "ok" THEN MRaise(m.err, m.fs, c)
        ELSE IF w.err # "ok" THEN MRaise(w.err, w.fs, c1)
        ELSE MRet(w.fs, c1)

_internal_put(f, c, h, item, value, append, t) ==
    LET item_path == _unsafe_key_path(h, item)
        v == _internal_verify_item(f, h, item)
        m == makedirs_dirname(f, item_path, t)
        c1 == CacheDel(c, item_path)
        w == write(m.fs, item_path, value, append, t)
    IN  IF ~writable(h) THEN MRaise("AccessViolation", f, c)
        ELSE IF IsChildVal(value) THEN MRaise("ValueError", f, c)
        ELSE IF v # "ok" THEN MRaise(v, f, c)
        ELSE IF isdir(f, item_path) THEN MRaise("DataOverChild", f, c)
        ELSE IF m.err # "ok" THEN MRaise(m.err, m.fs, c)
        ELSE IF w.err # "ok" THEN MRaise(w.err, w.fs, c1)
        ELSE MRet(w.fs, c1)

\* as _internal_delete, removing leaves only
_internal_delete_leaves_only(f, c, h, item, ignore_errors, t) ==
    LET cur_path == _unsafe_key_path(h, item)
        v == _internal_verify_item(f, h, item)
    IN  IF ~writable(h) THEN MRaise("AccessViolation", f, c)
        ELSE IF v # "ok" THEN MRaise(v, f, c)
        ELSE IF isdir(f, cur_path) THEN MRet(f, c)
        ELSE IF isfile(f, cur_path) THEN MRet(remove(f, cur_path, t), c)
        ELSE IF ~ignore_errors THEN MRaise("NoSuchKey", f, c)
        ELSE MRet(f, c)

\* as _internal_delete, never minding an absent key
_internal_delete_quiet(f, c, h, item, ignore_errors, t) ==
    LET cur_path == _unsafe_key_path(h, item)
        v == _internal_verify_item(f, h, item)
    IN  IF ~writable(h) THEN MRaise("AccessViolation", f, c)
        ELSE IF v # "ok" THEN MRaise(v, f, c)
        ELSE IF isdir(f, cur_path) THEN MRet(rmtree(f, cur_path, t), c)
        ELSE IF isfile(f, cur_path) THEN MRet(remove(f, cur_path, t), c)
        ELSE MRet(f, c)

\* as _internal_delete, without the check of the mode
_internal_delete_unchecked(f, c, h, item, ignore_errors, t) ==
    LET cur_path == _unsafe_key_path(h, item)
        v == _internal_verify_item(f, h, item)
    IN  IF v # "ok" THEN MRaise(v, f, c)
        ELSE IF isdir(f, cur_path) THEN MRet(rmtree(f, cur_path, t), c)
        ELSE IF isfile(f, cur_path) THEN MRet(remove(f, cur_path, t), c)
        ELSE IF ~ignore_errors THEN MRaise("NoSuchKey", f, c)
        ELSE MRet(f, c)

_internal_delete(f, c, h, item, ignore_errors, t) ==
    LET cur_path == _unsafe_key_path(h, item)
        v == _internal_verify_item(f, h, item)
    IN  IF ~writable(h) THEN MRaise("AccessViolation", f, c)
        ELSE IF v # "ok" THEN MRaise(v, f, c)
        ELSE IF isdir(f, cur_path) THEN MRet(rmtree(f, cur_path, t), c)
        ELSE IF isfile(f, cur_path) THEN MRet(remove(f, cur_path, t), c)
        ELSE IF ~ignore_errors THEN MRaise("NoSuchKey", f, c)
        ELSE MRet(f, c)

\* as _internal_copy_move, removing the destination subtree even when it has entries
_internal_copy_move_replaces_child(f, c, h, src, dst, is_move, t) ==
    LET src_path == _unsafe_key_path(h, src)
        dst_path == _unsafe_key_path(h, dst)
        vs == _internal_verify_item(f, h, src)
        vd == _internal_verify_item(f, h, dst)
        copy_file == isfile(f, src_path)
        f1 == IF ~copy_file /\ isdir(f, dst_path) THEN rmtree(f, dst_path, t) ELSE f
        m == makedirs_dirname(f1, dst_path, t)
        r == IF is_move THEN move(m.fs, src_path, dst_path, t)
             ELSE IF copy_file THEN copy(m.fs, src_path, dst_path, t)
             ELSE copytree(m.fs, src_path, dst_path, t)
    IN  IF ~writable(h) THEN MRaise("AccessViolation", f, c)
        ELSE IF vs # "ok" THEN MRaise(vs, f, c)
        ELSE IF vd # "ok" THEN MRaise(vd, f, c)
        ELSE IF ~exists(f, src_path) THEN MRaise("NoSuchKey", f, c)
        ELSE IF copy_file /\ isdir(f, dst_path) THEN MRaise("DataOverChild", f, c)
        ELSE IF ~copy_file /\ isfile(f, dst_path) THEN MRaise("ChildOverData", f, c)
        ELSE IF m.err # "ok" THEN MRaise(m.err, m.fs, c)
        ELSE IF r.err # "ok" THEN MRaise(r.err, r.fs, c)
        ELSE MRet(r.fs, c)

\* as _internal_copy_move, without the check for a leaf at the destination of a subtree
_internal_copy_move_no_child_over_data(f, c, h, src, dst, is_move, t) ==
    LET src_path == _unsafe_key_path(h, src)
        dst_path == _unsafe_key_path(h, dst)
        vs == _internal_verify_item(f, h, src)
        vd == _internal_verify_item(f, h, dst)
        copy_file == isfile(f, src_path)
        f1 == IF ~copy_file /\ isdir(f, dst_path) THEN rmtree(f, dst_path, t) ELSE f
        m == makedirs_dirname(f1, dst_path, t)
        r == IF is_move THEN move(m.fs, src_path, dst_path, t)
             ELSE IF copy_file THEN copy(m.fs, src_path, dst_path, t)
             ELSE copytree(m.fs, src_path, dst_path, t)
    IN  IF ~writable(h) THEN MRaise("AccessViolation", f, c)
        ELSE IF vs # "ok" THEN MRaise(vs, f, c)
        ELSE IF vd # "ok" THEN MRaise(vd, f, c)
        ELSE IF ~exists(f, src_path) THEN MRaise("NoSuchKey", f, c)
        ELSE IF copy_file /\ isdir(f, dst_path) THEN MRaise("DataOverChild", f, c)
        ELSE IF ~copy_file /\ isdir(f, dst_path) /\ listdir(f, dst_path) # {}
        THEN MRaise("ChildOverChild", f, c)
        ELSE IF m.err # "ok" THEN MRaise(m.err, m.fs, c)
        ELSE IF r.err # "ok" THEN MRaise(r.err, r.fs, c)
        ELSE MRet(r.fs, c)

\* as _internal_copy_move, copying also when a move is asked for
_internal_copy_move_never_moves(f, c, h, src, dst, is_move, t) ==
    LET src_path == _unsafe_key_path(h, src)
        dst_path == _unsafe_key_path(h, dst)
        vs == _internal_verify_item(f, h, src)
        vd == _internal_verify_item(f, h, dst)
        copy_file == isfile(f, src_path)
        f1 == IF ~copy_file /\ isdir(f, dst_path) THEN rmtree(f, dst_path, t) ELSE f
        m == makedirs_dirname(f1, dst_path, t)
        r == IF copy_file THEN copy(m.fs, src_path, dst_path, t)
             ELSE copytree(m.fs, src_path, dst_path, t)
    IN  IF ~writable(h) THEN MRaise("AccessViolation", f, c)
        ELSE IF vs # "ok" THEN MRaise(vs, f, c)
        ELSE IF vd # "ok" THEN MRaise(vd, f, c)
        ELSE IF ~exists(f, src_path) THEN MRaise("NoSuchKey", f, c)
        ELSE IF copy_file /\ isdir(f, dst_path) THEN MRaise("DataOverChild", f, c)
        ELSE IF ~copy_file /\ isfile(f, dst_path) THEN MRaise("ChildOverData", f, c)
        ELSE IF ~copy_file /\ isdir(f, dst_path) /\ listdir(f, dst_path) # {}
        THEN MRaise("ChildOverChild", f, c)
        ELSE IF m.err # "ok" THEN MRaise(m.err, m.fs, c)
        ELSE IF r.err # "ok" THEN MRaise(r.err, r.fs, c)
        ELSE MRet(r.fs, c)

\* as _internal_copy_move, without the check that the source exists
_internal_copy_move_no_src_check(f, c, h, src, dst, is_move, t) ==
    LET src_path == _unsafe_key_path(h, src)
        dst_path == _unsafe_key_path(h, dst)
        vs == _internal_verify_item(f, h, src)
        vd == _internal_verify_item(f, h, dst)
        copy_file == isfile(f, src_path)
        f1 == IF ~copy_file /\ isdir(f, dst_path) THEN rmtree(f, dst_path, t) ELSE f
        m == makedirs_dirname(f1, dst_path, t)
        r == IF is_move THEN move(m.fs, src_path, dst_path, t)
             ELSE IF copy_file THEN copy(m.fs, src_path, dst_path, t)
             ELSE copytree(m.fs, src_path, dst_path, t)
    IN  IF ~writable(h) THEN MRaise("AccessViolation", f, c)
        ELSE IF vs # "ok" THEN MRaise(vs, f, c)
        ELSE IF vd # "ok" THEN MRaise(vd, f, c)
        ELSE IF copy_file /\ isdir(f, dst_path) THEN MRaise("DataOverChild", f, c)
        ELSE IF ~copy_file /\ isfile(f, dst_path) THEN MRaise("ChildOverData", f, c)
        ELSE IF ~copy_file /\ isdir(f, dst_path) /\ listdir(f, dst_path) # {}
        THEN MRaise("ChildOverChild", f, c)
        ELSE IF m.err # "ok" THEN MRaise(m.err, m.fs, c)
        ELSE IF r.err # "ok" THEN MRaise(r.err, r.fs, c)
        ELSE MRet(r.fs, c)

_internal_copy_move(f, c, h, src, dst, is_move, t) ==
    LET src_path == _unsafe_key_path(h, src)
        dst_path == _unsafe_key_path(h, dst)
        vs == _internal_verify_item(f, h, src)
        vd == _internal_verify_item(f, h, dst)
        copy_file == isfile(f, src_path)
        f1 == IF ~copy_file /\ isdir(f, dst_path) THEN rmtree(f, dst_path, t) ELSE f
        m == makedirs_dirname(f1, dst_path, t)
        r == IF is_move THEN move(m.fs, src_path, dst_path, t)
             ELSE IF copy_file THEN copy(m.fs, src_path, dst_path, t)
             ELSE copytree(m.fs, src_path, dst_path, t)
    IN  IF ~writable(h) THEN MRaise("AccessViolation", f, c)
        ELSE IF vs # "ok" THEN MRaise(vs, f, c)
        ELSE IF vd # "ok" THEN MRaise(vd, f, c)
        ELSE IF ~exists(f, src_path) THEN MRaise("NoSuchKey", f, c)
        ELSE IF copy_file /\ isdir(f, dst_path) THEN MRaise("DataOverChild", f, c)
        ELSE IF ~copy_file /\ isfile(f, dst_path) THEN MRaise("ChildOverData", f, c)
        ELSE IF ~copy_file /\ isdir(f, dst_path) /\ listdir(f, dst_path) # {}
        THEN MRaise("ChildOverChild", f, c)
        ELSE IF m.err # "ok" THEN MRaise(m.err, m.fs, c)
        ELSE IF r.err # "ok" THEN MRaise(r.err, r.fs, c)
        ELSE MRet(r.fs, c)

\* a dict given to update: its items in order, a value or a dict to each key
DictVal(items) == [t |-> "dict", items |-> items]
IsDictVal(v) == v.t = "dict"

\* update: a put for each item, or with max_depth >= 1 the update of the child
\* that get_child yields for an item that is a dict; the first error ends it
RECURSIVE update(_, _, _, _, _, _)
update(f, c, h, input_dict, max_depth, t) ==
    IF input_dict = <<>> THEN MRet(f, c)
    ELSE LET k == Head(input_dict).k
             v == Head(input_dict).v
             g == get_child(f, c, h, k)
             r == IF max_depth >= 1 /\ IsDictVal(v)
                  THEN (IF g.res # "ok" THEN MRaise(g.res, f, g.cache)
                        ELSE update(f, g.cache, Handle(g.ret.path, g.ret.mode, h.cache),
                                    v.items, max_depth - 1, t))
                  ELSE _internal_put(f, c, h, k, v, FALSE, t)
         IN  IF r.res # "ok" THEN r
             ELSE update(r.fs, r.cache, h, Tail(input_dict), max_depth, t)

\* update(input_dict, max_depth): what is not a dict is a ValueError
NestedDictFS_update(f, c, h, input_dict, max_depth, t) ==
    IF ~IsDictVal(input_dict) THEN MRaise("ValueError", f, c)
    ELSE update(f, c, h, input_dict.items, max_depth, t)

\* key_path(item): the key is verified, then joined to the root of the handle
key_path(f, h, item) ==
    IF _internal_verify_item(f, h, item) # "ok"
    THEN [res |-> _internal_verify_item(f, h, item), ret |-> <<>>]
    ELSE [res |-> "ok", ret |-> _unsafe_key_path(h, item)]

\* child_exists, value_exists and exists: key_path verifies the key, then the
\* path is looked at on disk
child_exists(f, h, item) ==
    IF _internal_verify_item(f, h, item) # "ok" THEN [res |-> _internal_verify_item(f, h, item), ret |-> FALSE]
    ELSE [res |-> "ok", ret |-> isdir(f, _unsafe_key_path(h, item))]

value_exists(f, h, item) ==
    IF _internal_verify_item(f, h, item) # "ok" THEN [res |-> _internal_verify_item(f, h, item), ret |-> FALSE]
    ELSE [res |-> "ok", ret |-> isfile(f, _unsafe_key_path(h, item))]

item_exists(f, h, item) ==
    IF _internal_verify_item(f, h, item) # "ok" THEN [res |-> _internal_verify_item(f, h, item), ret |-> FALSE]
    ELSE [res |-> "ok", ret |-> exists(f, _unsafe_key_path(h, item))]

\* compress_level: int = 9
DefaultCompressLevel == 9

\* __init__: the handle with its store engine and compression level
NestedDictFS(data_path, mode, shared_cache, store_engine, compress_level) ==
    [root |-> data_path, mode |-> mode, cache |-> shared_cache,
     store_engine |-> store_engine, compress_level |-> compress_level]

\* __init__ with a handle as data_path: path, cache, engine and level are the parent's
NestedDictFS_of(parent, mode) ==
    NestedDictFS(parent.root, mode, parent.cache, parent.store_engine, parent.compress_level)

\* as init_ok, with the mode 'c' taking any path
init_ok_create_anywhere(f, data_path, mode) ==
    mode = "c" \/ isdir(f, data_path)

\* __init__ raises ValueError for a file, and for an absent path without 'c'
init_ok(f, data_path, mode) ==
    ~isfile(f, data_path) /\ (isdir(f, data_path) \/ mode = "c")

\* __init__ on a path: the ValueError or the handle, and the disk it leaves
NestedDictFS_init(f, data_path, mode) ==
    IF init_ok(f, data_path, mode)
    THEN [res |-> "ok", ret |-> ChildVal(data_path, mode), fs |-> f]
    ELSE [res |-> "ValueError", ret |-> None, fs |-> f]

\* the handle _internal_get_child makes of a subtree: it hands on the cache and
\* the store engine, the compression level is left to its default
child_handle(h, path, mode) ==
    NestedDictFS(path, mode, h.cache, h.store_engine, DefaultCompressLevel)

(***************************************************************************)
(* Search.  A query is a sequence of exact segments and search tokens: a   *)
(* slice (the wildcard), the Ellipsis (the recursive token) and a compiled *)
(* pattern, which is known by the names it matches.                        *)
(***************************************************************************)
Exact(s) == [t |-> "seg", s |-> s]
Slice == [t |-> "slice"]
EllipsisTok == [t |-> "ellipsis"]
Pattern(m) == [t |-> "pattern", m |-> m]

\* SEARCH_TYPES = slice, Ellipsis.__class__, Pattern
_is_search_type(k) == k.t \in {"slice", "ellipsis", "pattern"}

\* _internal_verify_item(item, is_search_key=True): the segments are checked,
\* the prefixes of the key are not walked
_internal_verify_search_item(item) ==
    IF \E i \in 1..Len(item) : ~_is_search_type(item[i]) /\ item[i].s \in BadSegments
    THEN "InvalidKey" ELSE "ok"

\* the runs of exact segments become one element each, a token stays alone
RECURSIVE _split_list_by_search_type(_)
_split_list_by_search_type(lst) ==
    IF lst = <<>> THEN <<>>
    ELSE IF _is_search_type(Head(lst)) THEN <<Head(lst)>> \o _split_list_by_search_type(Tail(lst))
    ELSE LET stops == {i \in 1..Len(lst) : _is_search_type(lst[i])}
             n == IF stops = {} THEN Len(lst)
                  ELSE (CHOOSE i \in stops : \A j \in stops : i <= j) - 1
         IN  <<[t |-> "run", k |-> [i \in 1..n |-> lst[i].s]]>>
                 \o _split_list_by_search_type(SubSeq(lst, n + 1, Len(lst)))

\* sorted(...): the names in their order
SortedNames == <<"a", "b", "x">>

\* os.path.isfile and os.path.isdir of a path that may lie outside the store
_internal_path_exists(f, path, include_child, include_data) ==
    /\ path \in DOMAIN f
    /\ (include_data /\ isfile(f, path)) \/ (include_child /\ isdir(f, path))

\* sorted(os.listdir(self.data_path)) of a directory, else nothing
_internal_list_dir(f, h) ==
    IF h.root \in DOMAIN f /\ isdir(f, h.root)
    THEN SelectSeq(SortedNames, LAMBDA k : _internal_path_exists(f, h.root \o <<k>>, TRUE, TRUE))
    ELSE <<>>

\* a found key with its path
Found(k, path) == [k |-> k, path |-> path]

\* as _internal_keys, without the filter on subtrees and leaves
_internal_keys_unfiltered(f, h, include_child, include_data) ==
    LET ks == _internal_list_dir(f, h)
    IN  [i \in 1..Len(ks) |-> Found(<<ks[i]>>, h.root \o <<ks[i]>>)]

_internal_keys(f, h, include_child, include_data) ==
    LET ks == SelectSeq(_internal_list_dir(f, h),
                        LAMBDA k : _internal_path_exists(f, h.root \o <<k>>, include_child, include_data))
    IN  [i \in 1..Len(ks) |-> Found(<<ks[i]>>, h.root \o <<ks[i]>>)]

\* os.walk(top, topdown=True): the directories then the files of top, then the
\* same below each directory; a top that is no directory gives nothing
RECURSIVE os_walk(_, _, _, _)
RECURSIVE os_walk_dirs(_, _, _, _)
\* as os_walk, without going down into the directories of top
os_walk_one_level(f, top, include_child, include_data) ==
    IF ~(top \in DOMAIN f /\ isdir(f, top)) THEN <<>>
    ELSE LET names == SelectSeq(SortedNames, LAMBDA k : _internal_path_exists(f, top \o <<k>>, TRUE, TRUE))
             dirs == SelectSeq(names, LAMBDA k : isdir(f, top \o <<k>>))
             files == SelectSeq(names, LAMBDA k : ~isdir(f, top \o <<k>>))
             iter_items == (IF include_child THEN dirs ELSE <<>>) \o (IF include_data THEN files ELSE <<>>)
         IN  [i \in 1..Len(iter_items) |-> top \o <<iter_items[i]>>]

os_walk(f, top, include_child, include_data) ==
    IF ~(top \in DOMAIN f /\ isdir(f, top)) THEN <<>>
    ELSE LET names == SelectSeq(SortedNames, LAMBDA k : _internal_path_exists(f, top \o <<k>>, TRUE, TRUE))
             dirs == SelectSeq(names, LAMBDA k : isdir(f, top \o <<k>>))
             files == SelectSeq(names, LAMBDA k : ~isdir(f, top \o <<k>>))
             iter_items == (IF include_child THEN dirs ELSE <<>>) \o (IF include_data THEN files ELSE <<>>)
         IN  [i \in 1..Len(iter_items) |-> top \o <<iter_items[i]>>]
                 \o os_walk_dirs(f, [i \in 1..Len(dirs) |-> top \o <<dirs[i]>>], include_child, include_data)

os_walk_dirs(f, tops, include_child, include_data) ==
    IF tops = <<>> THEN <<>>
    ELSE os_walk(f, Head(tops), include_child, include_data)
             \o os_walk_dirs(f, Tail(tops), include_child, include_data)

\* os.path.relpath(path, self.data_path), split at the separator
_unsafe_path_key(h, path) == SubSeq(path, Len(h.root) + 1, Len(path))

\* as _internal_walk, without the handle itself ahead of what lies below it
_internal_walk_below_only(f, h, include_child, include_data) ==
    LET below == os_walk(f, h.root, include_child, include_data)
    IN  [i \in 1..Len(below) |-> Found(_unsafe_path_key(h, below[i]), below[i])]

\* the handle itself when subtrees are wanted, then all that os.walk meets
_internal_walk(f, h, include_child, include_data) ==
    LET below == os_walk(f, h.root, include_child, include_data)
    IN  (IF include_child THEN <<Found(<<>>, h.root)>> ELSE <<>>)
            \o [i \in 1..Len(below) |-> Found(_unsafe_path_key(h, below[i]), below[i])]

\* a key of one segment is yielded as the segment, any other as the tuple
StrKey(s) == [t |-> "str", s |-> s]
TupleKey(k) == [t |-> "tuple", k |-> k]

\* the key, the value, or both; the value is read through the cache
_yield_item(f, c, h, item, item_path, yield_keys, yield_values) ==
    LET key == IF Len(item) = 1 THEN StrKey(item[1]) ELSE TupleKey(item)
        r == _internal_get_cached(f, c, h, item_path, None, TRUE, TRUE, TRUE, FALSE)
    IN  IF ~yield_values THEN CRet([key |-> key], c)
        ELSE IF r.res # "ok" THEN r
        ELSE IF yield_keys THEN CRet([key |-> key, value |-> r.ret], r.cache)
        ELSE CRet([value |-> r.ret], r.cache)

\* yield from (self._yield_item(*args) for args in sub_items); an error ends the search
RECURSIVE yield_from(_, _, _, _, _, _, _)
yield_from(f, c, h, sub_items, yield_keys, yield_values, out) ==
    IF sub_items = <<>> THEN CRet(out, c)
    ELSE LET y == _yield_item(f, c, h, Head(sub_items).k, Head(sub_items).path, yield_keys, yield_values)
         IN  IF y.res # "ok" THEN [res |-> y.res, ret |-> out, cache |-> y.cache]
             ELSE yield_from(f, y.cache, h, Tail(sub_items), yield_keys, yield_values, Append(out, y.ret))

\* as sub_items_of, with a concrete run taken for found whatever lies at its path
sub_items_of_any_run(f, child, cur_k, include_child, include_data) ==
    CASE cur_k.t = "ellipsis" -> _internal_walk(f, child, include_child, include_data)
      [] cur_k.t = "slice" -> _internal_keys(f, child, include_child, include_data)
      [] cur_k.t = "pattern" ->
            SelectSeq(_internal_keys(f, child, include_child, include_data), LAMBDA e : e.k[1] \in cur_k.m)
      [] cur_k.t = "run" ->
            IF _internal_path_exists(f, _unsafe_key_path(child, cur_k.k), TRUE, TRUE)
            THEN <<Found(cur_k.k, _unsafe_key_path(child, cur_k.k))>>
            ELSE <<>>

\* as sub_items_of, with a pattern that every name matches
sub_items_of_any_name(f, child, cur_k, include_child, include_data) ==
    CASE cur_k.t = "ellipsis" -> _internal_walk(f, child, include_child, include_data)
      [] cur_k.t \in {"slice", "pattern"} -> _internal_keys(f, child, include_child, include_data)
      [] cur_k.t = "run" ->
            IF _internal_path_exists(f, _unsafe_key_path(child, cur_k.k), include_child, include_data)
            THEN <<Found(cur_k.k, _unsafe_key_path(child, cur_k.k))>>
            ELSE <<>>

\* what the element cur_k of the query finds below the handle child
sub_items_of(f, child, cur_k, include_child, include_data) ==
    CASE cur_k.t = "ellipsis" -> _internal_walk(f, child, include_child, include_data)
      [] cur_k.t = "slice" -> _internal_keys(f, child, include_child, include_data)
      [] cur_k.t = "pattern" ->
            SelectSeq(_internal_keys(f, child, include_child, include_data), LAMBDA e : e.k[1] \in cur_k.m)
      [] cur_k.t = "run" ->
            IF _internal_path_exists(f, _unsafe_key_path(child, cur_k.k), include_child, include_data)
            THEN <<Found(cur_k.k, _unsafe_key_path(child, cur_k.k))>>
            ELSE <<>>

\* walk: every item of _internal_walk goes through _yield_item
walk(f, c, h, include_child, include_data, yield_keys, yield_values) ==
    yield_from(f, c, h, _internal_walk(f, h, include_child, include_data), yield_keys, yield_values, <<>>)

\* the loop over the queue q of (pre_k, slice_list); out is what was yielded
RECURSIVE search_loop(_, _, _, _, _, _, _, _, _)
search_loop(f, c, h, q, include_child, include_data, yield_keys, yield_values, out) ==
    IF q = <<>> THEN CRet(out, c)
    ELSE LET pre_k == Head(q).pre_k
             cur_k == Head(Head(q).slice_list)
             next_slice_list == Tail(Head(q).slice_list)
             g == get_child(f, c, h, pre_k)
             child == Handle(g.ret.path, g.ret.mode, h.cache)
             is_final == next_slice_list = <<>>
             found == sub_items_of(f, child, cur_k,
                                   IF is_final THEN include_child ELSE TRUE,
                                   IF is_final THEN include_data ELSE FALSE)
             sub_items == [i \in 1..Len(found) |-> Found(pre_k \o found[i].k, found[i].path)]
             y == yield_from(f, g.cache, h, sub_items, yield_keys, yield_values, out)
         IN  IF g.res # "ok" THEN [res |-> g.res, ret |-> out, cache |-> g.cache]
             ELSE IF is_final
             THEN (IF y.res # "ok" THEN y
                   ELSE search_loop(f, y.cache, h, Tail(q), include_child, include_data,
                                    yield_keys, yield_values, y.ret))
             ELSE search_loop(f, g.cache, h,
                              Tail(q) \o [i \in 1..Len(sub_items) |->
                                              [pre_k |-> sub_items[i].k, slice_list |-> next_slice_list]],
                              include_child, include_data, yield_keys, yield_values, out)

\* as search, with nothing yielded for the empty query
search_empty_yields_nothing(f, c, h, item, include_child, include_data, yield_keys, yield_values) ==
    IF _internal_verify_search_item(item) # "ok"
    THEN [res |-> _internal_verify_search_item(item), ret |-> <<>>, cache |-> c]
    ELSE search_loop(f, c, h,
                     IF Len(item) = 0 THEN <<>>
                     ELSE <<[pre_k |-> <<>>, slice_list |-> _split_list_by_search_type(item)]>>,
                     include_child, include_data, yield_keys, yield_values, <<>>)

\* search: all that the generator yields, the error that ends it, and the cache
search(f, c, h, item, include_child, include_data, yield_keys, yield_values) ==
    IF _internal_verify_search_item(item) # "ok"
    THEN [res |-> _internal_verify_search_item(item), ret |-> <<>>, cache |-> c]
    ELSE IF Len(item) = 0
    THEN yield_from(f, c, h, <<Found(<<>>, h.root)>>, yield_keys, yield_values, <<>>)
    ELSE search_loop(f, c, h, <<[pre_k |-> <<>>, slice_list |-> _split_list_by_search_type(item)]>>,
                     include_child, include_data, yield_keys, yield_values, <<>>)

(***************************************************************************)
(* The search of the package nested_dict_fs, which the repository holds    *)
(* beside nesteddict.  Its lookups and modifiers are those above; its      *)
(* search knows exact segments and slices, and rejects the Ellipsis.       *)
(***************************************************************************)
\* _internal_verify_item(item, is_search_key=True) of nested_dict_fs
nested_dict_fs_verify_search_item(item) ==
    IF \E i \in 1..Len(item) : item[i].t = "ellipsis" THEN "Ellipsis"
    ELSE IF \E i \in 1..Len(item) : item[i].t = "seg" /\ item[i].s \in BadSegments THEN "InvalidKey"
    ELSE "ok"

\* _split_list_by_type(item, slice): the run ahead of each slice, empty or not,
\* then the slice; the run after the last slice if there is one
RECURSIVE nested_dict_fs_split_list_by_type(_)
nested_dict_fs_split_list_by_type(lst) ==
    LET stops == {i \in 1..Len(lst) : lst[i].t = "slice"}
        n == (CHOOSE i \in stops : \A j \in stops : i <= j) - 1
    IN  IF lst = <<>> THEN <<>>
        ELSE IF stops = {} THEN <<[t |-> "run", k |-> [i \in 1..Len(lst) |-> lst[i].s]]>>
        ELSE <<[t |-> "run", k |-> [i \in 1..n |-> lst[i].s]], Slice>>
                 \o nested_dict_fs_split_list_by_type(SubSeq(lst, n + 2, Len(lst)))

RECURSIVE nested_dict_fs_search_loop(_, _, _, _, _, _, _, _, _)

\* after the items of the head of child_q were yielded: the error of a lookup
\* ends the search, else the loop goes on with the rest of child_q
nested_dict_fs_search_yielded(f, h, child_q, include_child, include_data, yield_keys, yield_values, y) ==
    IF y.res # "ok" THEN y
    ELSE nested_dict_fs_search_loop(f, y.cache, h, child_q, include_child, include_data,
                                    yield_keys, yield_values, y.ret)

\* cur_k != slice: the run of exact segments joined to pre_k
nested_dict_fs_search_run(f, c, h, child_q, include_child, include_data, yield_keys, yield_values, out, joined_k, next_slice_list) ==
    LET cur_path == _unsafe_key_path(h, joined_k)
    IN  IF next_slice_list = <<>>
        THEN (IF ~_internal_path_exists(f, cur_path, include_child, include_data)
              THEN nested_dict_fs_search_loop(f, c, h, Tail(child_q), include_child, include_data,
                                              yield_keys, yield_values, out)
              ELSE nested_dict_fs_search_yielded(
                       f, h, Tail(child_q), include_child, include_data, yield_keys, yield_values,
                       yield_from(f, c, h, <<Found(joined_k, cur_path)>>, yield_keys, yield_values, out)))
        ELSE nested_dict_fs_search_loop(
                 f, c, h,
                 IF _internal_path_exists(f, cur_path, TRUE, FALSE)
                 THEN Append(Tail(child_q), [pre_k |-> joined_k, slice_list |-> next_slice_list])
                 ELSE Tail(child_q),
                 include_child, include_data, yield_keys, yield_values, out)

\* the keys found below the child of pre_k: yielded when the slice is the last
\* element, else put in child_q
nested_dict_fs_search_found(f, c, h, child_q, include_child, include_data, yield_keys, yield_values, out, pre_k, next_slice_list, found) ==
    LET sub_items == [i \in 1..Len(found) |->
                         Found(pre_k \o found[i].k, _unsafe_key_path(h, pre_k \o found[i].k))]
    IN  IF next_slice_list = <<>>
        THEN nested_dict_fs_search_yielded(
                 f, h, Tail(child_q), include_child, include_data, yield_keys, yield_values,
                 yield_from(f, c, h, sub_items, yield_keys, yield_values, out))
        ELSE nested_dict_fs_search_loop(
                 f, c, h,
                 Tail(child_q) \o [i \in 1..Len(sub_items) |->
                                       [pre_k |-> sub_items[i].k, slice_list |-> next_slice_list]],
                 include_child, include_data, yield_keys, yield_values, out)

\* cur_k == slice: g is what get_child(pre_k) gave
nested_dict_fs_search_slice(f, h, child_q, include_child, include_data, yield_keys, yield_values, out, pre_k, next_slice_list, g) ==
    IF g.res # "ok" THEN [res |-> g.res, ret |-> out, cache |-> g.cache]
    ELSE nested_dict_fs_search_found(
             f, g.cache, h, child_q, include_child, include_data, yield_keys, yield_values, out,
             pre_k, next_slice_list,
             _internal_keys(f, Handle(g.ret.path, g.ret.mode, h.cache),
                            IF next_slice_list = <<>> THEN include_child ELSE TRUE,
                            IF next_slice_list = <<>> THEN include_data ELSE FALSE))

\* the loop over child_q
nested_dict_fs_search_loop(f, c, h, child_q, include_child, include_data, yield_keys, yield_values, out) ==
    IF child_q = <<>> THEN CRet(out, c)
    ELSE IF Head(Head(child_q).slice_list).t = "run"
    THEN nested_dict_fs_search_run(
             f, c, h, child_q, include_child, include_data, yield_keys, yield_values, out,
             Head(child_q).pre_k \o Head(Head(child_q).slice_list).k, Tail(Head(child_q).slice_list))
    ELSE nested_dict_fs_search_slice(
             f, h, child_q, include_child, include_data, yield_keys, yield_values, out,
             Head(child_q).pre_k, Tail(Head(child_q).slice_list),
             get_child(f, c, h, Head(child_q).pre_k))

\* as nested_dict_fs_search, with nothing yielded for the empty query
nested_dict_fs_search_empty_ok(f, c, h, item, include_child, include_data, yield_keys, yield_values) ==
    IF nested_dict_fs_verify_search_item(item) # "ok"
    THEN [res |-> nested_dict_fs_verify_search_item(item), ret |-> <<>>, cache |-> c]
    ELSE nested_dict_fs_search_loop(
             f, c, h,
             IF Len(item) = 0 THEN <<>>
             ELSE <<[pre_k |-> <<>>, slice_list |-> nested_dict_fs_split_list_by_type(item)]>>,
             include_child, include_data, yield_keys, yield_values, <<>>)

\* search of nested_dict_fs: the empty query is a ValueError
nested_dict_fs_search(f, c, h, item, include_child, include_data, yield_keys, yield_values) ==
    IF nested_dict_fs_verify_search_item(item) # "ok"
    THEN [res |-> nested_dict_fs_verify_search_item(item), ret |-> <<>>, cache |-> c]
    ELSE IF Len(item) = 0 THEN [res |-> "ValueError", ret |-> <<>>, cache |-> c]
    ELSE nested_dict_fs_search_loop(
             f, c, h, <<[pre_k |-> <<>>, slice_list |-> nested_dict_fs_split_list_by_type(item)]>>,
             include_child, include_data, yield_keys, yield_values, <<>>)

(***************************************************************************)
(* The state: the tree on disk, the caches, the clock of the filesystem    *)
(* and the last call with its outcome.                                     *)
(***************************************************************************)
VARIABLES
    fs,       \* the entry at each path: absent, a file with its objects, a directory
    cache,    \* the entries of each LRU cache, the most recently used first
    clock,    \* the time the filesystem stamps a modification with
    last,     \* the last call and its outcome
    handles   \* the handles opened beside A, B, R and S, with engine and level

vars == <<fs, cache, clock, last, handles>>

\* A and B: NestedDictFS(path, mode='c'), each with a cache of its own.
\* R: NestedDictFS(A, mode='c') after set_mode('r'); it shares A's cache.
\* S: the handle of subtree a, as A.get_child('a') returns it.
HandleIds == {"A", "B", "R", "S"}
CacheIds == {"cA", "cB"}
H(id) ==
    CASE id = "A" -> Handle(<<>>, "c", "cA")
      [] id = "B" -> Handle(<<>>, "c", "cB")
      [] id = "R" -> Handle(<<>>, "r", "cA")
      [] id = "S" -> Handle(<<"a">>, "c", "cA")

\* the keys whose path lies within the model
Keys(id) == {k \in UNION {[1..n -> Names] : n \in 0..MaxDepth} : H(id).root \o k \in Paths}
KeyPath(id, k) == _unsafe_key_path(H(id), k)

\* the last call: the operation, the handle it went through and its outcome
Call(op, id, r) == [op |-> op, h |-> id, res |-> r.res, ret |-> r.ret]

Init ==
    /\ fs = [p \in Paths |-> NoEntry]
    /\ cache = [c \in CacheIds |-> <<>>]
    /\ clock = 0
    /\ last = Call("init", "A", Ret(None))
    /\ handles = {}

\* the time of a modification: dt = 1 when the clock has moved on since the last one
Now(dt) == clock + dt

Modify(id, r, dt, call) ==
    /\ Now(dt) <= MaxClock
    /\ fs' = r.fs
    /\ cache' = [cache EXCEPT ![H(id).cache] = r.cache]
    /\ clock' = Now(dt)
    /\ last' = call
    /\ UNCHANGED handles

\* what is moved or copied lands on paths of the model, and copytree does not
\* recurse for ever
InBounds(srcp, dstp, is_move) ==
    /\ \A q \in Paths : IsPrefix(srcp, q) /\ exists(fs, q) => Rebase(q, srcp, dstp) \in Paths
    /\ is_move \/ ~(isdir(fs, srcp) /\ IsStrictPrefix(srcp, Parent(dstp)))

Put(id, k, v, dt) ==
    LET r == _internal_put(fs, cache[H(id).cache], H(id), k, v, FALSE, Now(dt))
    IN  Modify(id, r, dt, Call("put", id, r))

\* append: a file holds at most MaxFileLen objects
AppendTo(id, k, v, dt) ==
    LET r == _internal_put(fs, cache[H(id).cache], H(id), k, v, TRUE, Now(dt))
    IN  /\ Len(fs[KeyPath(id, k)].data) < MaxFileLen
        /\ Modify(id, r, dt, Call("append", id, r))

Delete(id, k, ignore_errors, dt) ==
    LET r == _internal_delete(fs, cache[H(id).cache], H(id), k, ignore_errors, Now(dt))
    IN  Modify(id, r, dt, Call("delete", id, r))

Move(id, src, dst, dt) ==
    LET r == _internal_copy_move(fs, cache[H(id).cache], H(id), src, dst, TRUE, Now(dt))
    IN  /\ InBounds(KeyPath(id, src), KeyPath(id, dst), TRUE)
        /\ Modify(id, r, dt, Call("move", id, r))

Copy(id, src, dst, dt) ==
    LET r == _internal_copy_move(fs, cache[H(id).cache], H(id), src, dst, FALSE, Now(dt))
    IN  /\ InBounds(KeyPath(id, src), KeyPath(id, dst), FALSE)
        /\ Modify(id, r, dt, Call("copy", id, r))

Update(id, input_dict, max_depth, dt) ==
    LET r == update(fs, cache[H(id).cache], H(id), input_dict, max_depth, Now(dt))
    IN  Modify(id, r, dt, Call("update", id, r))

\* as Lookup, the root of the handle being made when it is not there
Lookup_makes_root(id, r, call) ==
    /\ cache' = [cache EXCEPT ![H(id).cache] = r.cache]
    /\ last' = call
    /\ fs' = makedirs(fs, H(id).root, clock).fs
    /\ UNCHANGED <<clock, handles>>

Lookup(id, r, call) ==
    /\ cache' = [cache EXCEPT ![H(id).cache] = r.cache]
    /\ last' = call
    /\ UNCHANGED <<fs, clock, handles>>

Get(id, k) ==
    LET r == get(fs, cache[H(id).cache], H(id), k)
    IN  Lookup(id, r, Call("get", id, r))

GetChild(id, k) ==
    LET r == get_child(fs, cache[H(id).cache], H(id), k)
    IN  Lookup(id, r, Call("get_child", id, r))

(***************************************************************************)
(* Spec: the modifiers through a writable handle, a read-only one and a    *)
(* subtree handle, all calls within one tick of the clock.                 *)
(***************************************************************************)
TreeHandles == {"A", "R", "S"}
TreeValues == {IntVal(i) : i \in Ints}

NextPut == \E id \in TreeHandles : \E k \in Keys(id) : \E v \in TreeValues : Put(id, k, v, 0)
NextDelete == \E id \in TreeHandles : \E k \in Keys(id) : \E ig \in BOOLEAN : Delete(id, k, ig, 0)
NextMove == \E id \in TreeHandles : \E s \in Keys(id) : \E d \in Keys(id) : Move(id, s, d, 0)
NextCopy == \E id \in TreeHandles : \E s \in Keys(id) : \E d \in Keys(id) : Copy(id, s, d, 0)

Next == NextPut \/ NextDelete \/ NextMove \/ NextCopy

Spec == Init /\ [][Next]_vars

(***************************************************************************)
(* SpecShape: every call that changes the tree, append and update          *)
(* included, and get_child, with one value.                                *)
(***************************************************************************)
ShapeHandles == {"A", "S"}
ShapeValues == {IntVal(1)}

ShapePut == \E id \in ShapeHandles : \E k \in Keys(id) : \E v \in ShapeValues : Put(id, k, v, 0)
ShapeAppend == \E id \in ShapeHandles : \E k \in Keys(id) : \E v \in ShapeValues : AppendTo(id, k, v, 0)
ShapeDelete == \E id \in ShapeHandles : \E k \in Keys(id) : \E ig \in BOOLEAN : Delete(id, k, ig, 0)
ShapeMove == \E s \in Keys("A") : \E d \in Keys("A") : Move("A", s, d, 0)
ShapeCopy == \E s \in Keys("A") : \E d \in Keys("A") : Copy("A", s, d, 0)

\* get_child of the subtree a, through the root handle
ShapeGetChild == GetChild("A", <<"a">>)

\* the dicts given to update through the root handle: distinct one-segment
\* keys with a value each, and with max_depth 1 a dict of one item for a
ShapeItems(max_depth) ==
    [k : {<<n>> : n \in TopNames}, v : ShapeValues]
        \cup (IF max_depth = 1
              THEN {[k |-> <<"a">>, v |-> DictVal(<<[k |-> <<"x">>, v |-> w]>>)] : w \in ShapeValues}
              ELSE {})
ShapeDicts(max_depth) ==
    {d \in UNION {[1..n -> ShapeItems(max_depth)] : n \in 1..2} :
        \A i \in 1..Len(d) : \A j \in 1..Len(d) : d[i].k = d[j].k => i = j}
ShapeUpdate ==
    \E max_depth \in {0, 1} : \E d \in ShapeDicts(max_depth) : Update("A", d, max_depth, 0)

NextShape ==
    ShapePut \/ ShapeAppend \/ ShapeDelete \/ ShapeMove \/ ShapeCopy \/ ShapeUpdate \/ ShapeGetChild

SpecShape == Init /\ [][NextShape]_vars

(***************************************************************************)
(* SpecLookup: lookups and modifiers on the keys (), a and (a, x), through  *)
(* the writable and the read-only handle of one cache.                     *)
(***************************************************************************)
LookupHandles == {"A", "R"}
LookupKeys(id) == {k \in Keys(id) : IsPrefix(k, <<"a", "x">>)}

LookupPut == \E id \in LookupHandles : \E k \in LookupKeys(id) : \E v \in PutValues : Put(id, k, v, 0)
LookupDelete == \E id \in LookupHandles : \E k \in LookupKeys(id) : Delete(id, k, FALSE, 0)
LookupMove == \E id \in LookupHandles : \E s \in LookupKeys(id) : \E d \in LookupKeys(id) : Move(id, s, d, 0)
LookupCopy == \E id \in LookupHandles : \E s \in LookupKeys(id) : \E d \in LookupKeys(id) : Copy(id, s, d, 0)
LookupGet == \E id \in LookupHandles : \E k \in LookupKeys(id) : Get(id, k)
LookupGetChild == \E id \in LookupHandles : \E k \in LookupKeys(id) : GetChild(id, k)

NextLookup ==
    LookupPut \/ LookupDelete \/ LookupMove \/ LookupCopy \/ LookupGet \/ LookupGetChild

SpecLookup == Init /\ [][NextLookup]_vars

(***************************************************************************)
(* SpecHandles: handles opened with an engine and a compression level, on  *)
(* a cache of their own or from another handle, and the subtree handles    *)
(* that get_child returns; puts through them make the subtrees.            *)
(***************************************************************************)
MaxHandles == 3
Engines == {"msgpack", "msgpack-numpy"}
Levels == {0, DefaultCompressLevel}
HandleKeys(h) == {k \in UNION {[1..n -> Names] : n \in 1..MaxDepth} : IsPrefix(h.root \o k, <<"a", "x">>)}

HandleCall(op, r) == [op |-> op, h |-> "H", res |-> r.res, ret |-> r.ret]

\* NestedDictFS(path, mode, store_engine=e, compress_level=l): a cache of its own
OpenStore(mode, cid, e, l) ==
    /\ Cardinality(handles) < MaxHandles
    /\ \A h \in handles : h.cache # cid
    /\ init_ok(fs, <<>>, mode)
    /\ handles' = handles \cup {NestedDictFS(<<>>, mode, cid, e, l)}
    /\ last' = HandleCall("open", Ret(None))
    /\ UNCHANGED <<fs, cache, clock>>

\* NestedDictFS(parent, mode)
OpenFrom(parent, mode) ==
    /\ Cardinality(handles) < MaxHandles
    /\ init_ok(fs, parent.root, mode)
    /\ handles' = handles \cup {NestedDictFS_of(parent, mode)}
    /\ last' = HandleCall("open_from", Ret(None))
    /\ UNCHANGED <<fs, cache, clock>>

\* h.get_child(k): the subtree handle it returns joins the handles
HandleGetChild(h, k) ==
    LET r == get_child(fs, cache[h.cache], h, k)
    IN  /\ Cardinality(handles) < MaxHandles
        /\ cache' = [cache EXCEPT ![h.cache] = r.cache]
        /\ handles' = IF r.res = "ok"
                       THEN handles \cup {child_handle(h, r.ret.path, r.ret.mode)}
                       ELSE handles
        /\ last' = HandleCall("get_child", r)
        /\ UNCHANGED <<fs, clock>>

\* h.put(k, v)
HandlePut(h, k, v) ==
    LET r == _internal_put(fs, cache[h.cache], h, k, v, FALSE, clock)
    IN  /\ fs' = r.fs
        /\ cache' = [cache EXCEPT ![h.cache] = r.cache]
        /\ last' = HandleCall("put", r)
        /\ UNCHANGED <<clock, handles>>

HandlesOpen ==
    \E mode \in {"r", "c"} : \E cid \in CacheIds : \E e \in Engines : \E l \in Levels :
        OpenStore(mode, cid, e, l)
\* NestedDictFS(path, mode) on the root or on the path of a: the call is made
\* and the handle let go
OpenModes == {"r", "w", "c"}
OpenPaths == {<<>>, <<"a">>}

OpenAt(data_path, mode) ==
    LET r == NestedDictFS_init(fs, data_path, mode)
    IN  /\ fs' = r.fs
        /\ last' = [op |-> "open_at", h |-> "H", res |-> r.res,
                    ret |-> [data_path |-> data_path, mode |-> mode]]
        /\ UNCHANGED <<cache, clock, handles>>

HandlesOpenAt == \E data_path \in OpenPaths : \E mode \in OpenModes : OpenAt(data_path, mode)
HandlesOpenFrom == \E parent \in handles : \E mode \in {"r", "c"} : OpenFrom(parent, mode)
HandlesGetChild == \E h \in handles : \E k \in HandleKeys(h) : HandleGetChild(h, k)
HandlesPut == \E h \in handles : \E k \in HandleKeys(h) : HandlePut(h, k, IntVal(1))

NextHandles == HandlesOpen \/ HandlesOpenAt \/ HandlesOpenFrom \/ HandlesGetChild \/ HandlesPut

SpecHandles == Init /\ [][NextHandles]_vars

(***************************************************************************)
(* SpecLRU: puts and gets of every key through the root handle, more paths *)
(* than the cache has room for.                                            *)
(***************************************************************************)
LRUPut == \E k \in Keys("A") : Put("A", k, IntVal(1), 0)
LRUGet == \E k \in Keys("A") : Get("A", k)

NextLRU == LRUPut \/ LRUGet

SpecLRU == Init /\ [][NextLRU]_vars

(***************************************************************************)
(* SpecCache: two handles on one root, each with its own cache; the clock  *)
(* moves on before every modification, so that every write changes the     *)
(* stat of what it writes.                                                 *)
(***************************************************************************)
CacheHandles == {"A", "B"}
CacheValues == {IntVal(i) : i \in Ints}

CachePut == \E id \in CacheHandles : \E k \in LookupKeys(id) : \E v \in CacheValues : Put(id, k, v, 1)
CacheDelete == \E id \in CacheHandles : \E k \in LookupKeys(id) : Delete(id, k, FALSE, 1)
CacheGet == \E id \in CacheHandles : \E k \in LookupKeys(id) : Get(id, k)

NextCache == CachePut \/ CacheDelete \/ CacheGet

SpecCache == Init /\ [][NextCache]_vars

(***************************************************************************)
(* SpecSearch: a tree is built through the root handle, the subtree below  *)
(* b is cut down again, and the tree is searched through the root handle   *)
(* and the handle of subtree a.                                            *)
(***************************************************************************)
MaxQuery == 2

SearchHandles == {"A", "S"}

\* the queries run: (), [:], [...], [:, 'x'], [..., 'x'], ['x', :], [:, :] and
\* [re.compile('a'), 'x']
SearchQueries ==
    {<<>>, <<Slice>>, <<EllipsisTok>>, <<Slice, Exact("x")>>, <<EllipsisTok, Exact("x")>>,
     <<Exact("x"), Slice>>, <<Slice, Slice>>, <<Pattern({"a"}), Exact("x")>>}

\* the iterators items, child_items and data_items
Projections ==
    {[include_child |-> TRUE, include_data |-> TRUE],
     [include_child |-> TRUE, include_data |-> FALSE],
     [include_child |-> FALSE, include_data |-> TRUE]}

\* list(iterator[item]): the search is run to its end
Search(id, item, include_child, include_data, yield_keys, yield_values) ==
    LET r == search(fs, cache[H(id).cache], H(id), item, include_child, include_data,
                    yield_keys, yield_values)
    IN  Lookup(id, r, Call("search", id, r))

SearchPut == \E k \in Keys("A") : Put("A", k, IntVal(1), 0)
SearchDelete == Delete("A", <<"b", "x">>, FALSE, 0)
SearchItems ==
    \E id \in SearchHandles : \E item \in SearchQueries : \E p \in Projections :
        Search(id, item, p.include_child, p.include_data, TRUE, TRUE)

\* list(handle.walk(include_child, include_data))
Walk(id, include_child, include_data, yield_keys, yield_values) ==
    LET r == walk(fs, cache[H(id).cache], H(id), include_child, include_data, yield_keys, yield_values)
    IN  Lookup(id, r, Call("walk", id, r))

SearchWalk ==
    \E id \in SearchHandles : \E p \in Projections :
        Walk(id, p.include_child, p.include_data, TRUE, TRUE)

NextSearch == SearchPut \/ SearchDelete \/ SearchItems

SpecSearch == Init /\ [][NextSearch]_vars

\* SpecNestedDictFs: the same tree, searched with the search of nested_dict_fs
NdfsQueries == {<<>>, <<Slice>>, <<Slice, Exact("x")>>, <<Exact("x"), Slice>>, <<EllipsisTok>>}

NdfsSearch(id, item, include_child, include_data, yield_keys, yield_values) ==
    LET r == nested_dict_fs_search(fs, cache[H(id).cache], H(id), item, include_child, include_data,
                                   yield_keys, yield_values)
    IN  Lookup(id, r, Call("nested_dict_fs.search", id, r))

NdfsSearchItems ==
    \E id \in SearchHandles : \E item \in NdfsQueries : \E p \in Projections :
        NdfsSearch(id, item, p.include_child, p.include_data, TRUE, TRUE)

NextNestedDictFs == SearchPut \/ SearchDelete \/ NdfsSearchItems

SpecNestedDictFs == Init /\ [][NextNestedDictFs]_vars

\* list(handle.search((), yield_keys=True, yield_values=False))
SearchRootKey ==
    \E id \in SearchHandles : \E p \in Projections :
        Search(id, <<>>, p.include_child, p.include_data, TRUE, FALSE)

\* SpecWalk: the same tree, walked through the two handles and asked for its root
NextWalk == SearchPut \/ SearchDelete \/ SearchWalk \/ SearchRootKey

SpecWalk == Init /\ [][NextWalk]_vars

(***************************************************************************)
(* SpecKeys: puts and gets that build the tree and fill the cache, and the *)
(* calls that are no search given a key with a malformed segment or a      *)
(* search term, through a writable, a read-only and a subtree handle.      *)
(***************************************************************************)
KeyHandles == {"A", "R", "S"}
KeySegments == {"a"} \cup BadSegments \cup SearchTerms
MalformedKeys ==
    {k \in UNION {[1..n -> KeySegments] : n \in 1..MaxDepth} : Offending(k) # {}}

\* the malformed keys of the calls: a bad segment or a search term, alone,
\* below a and ahead of one another
CalledKeys ==
    {<<".">>, <<"a", "..">>, <<"a/b">>, <<"<slice>">>, <<"a", "<ellipsis>">>,
     <<"<pattern>", ".">>, <<".", "<slice>">>}
TreeKeys == {<<"a">>, <<"a", "x">>}

KeysPut == \E k \in TreeKeys : Put("A", k, IntVal(1), 0)
KeysGet == \E k \in TreeKeys : Get("A", k)

MalformedPut == \E id \in KeyHandles : \E k \in CalledKeys : Put(id, k, IntVal(1), 0)
MalformedDelete ==
    \E id \in KeyHandles : \E k \in CalledKeys : \E ig \in BOOLEAN : Delete(id, k, ig, 0)
MalformedGet == \E id \in KeyHandles : \E k \in CalledKeys : Get(id, k)

\* move and copy with a malformed source or a malformed destination
MalformedCopyMove ==
    \E id \in KeyHandles : \E k \in CalledKeys : \E o \in Keys(id) : \E is_move \in BOOLEAN :
        \E src_first \in BOOLEAN :
            LET src == IF src_first THEN k ELSE o
                dst == IF src_first THEN o ELSE k
                r == _internal_copy_move(fs, cache[H(id).cache], H(id), src, dst, is_move, clock)
            IN  Modify(id, r, 0, Call(IF is_move THEN "move" ELSE "copy", id, r))

MalformedExists ==
    \E id \in KeyHandles : \E k \in CalledKeys :
        LET r == item_exists(fs, H(id), k)
        IN  /\ last' = [op |-> "exists", h |-> id, res |-> r.res, ret |-> None]
            /\ UNCHANGED <<fs, cache, clock, handles>>

NextKeys ==
    \/ KeysPut \/ KeysGet
    \/ MalformedPut \/ MalformedDelete \/ MalformedGet \/ MalformedCopyMove \/ MalformedExists

SpecKeys == Init /\ [][NextKeys]_vars

(***************************************************************************)
(* SpecAppend: a leaf that is put, appended to and read back, the reads    *)
(* through the writing handle and through a read-only one on its cache.    *)
(***************************************************************************)
MaxAppends == 2
AppendReaders == {"A", "R"}

\* append(k, v): the file holds the object that was put and MaxAppends more
AppendMore(id, k, v, dt) ==
    LET r == _internal_put(fs, cache[H(id).cache], H(id), k, v, TRUE, Now(dt))
    IN  /\ Len(fs[KeyPath(id, k)].data) <= MaxAppends
        /\ Modify(id, r, dt, Call("append", id, r))

AppendPut == \E v \in TreeValues : \E dt \in {0, 1} : Put("A", <<"a">>, v, dt)
AppendAppend == \E v \in TreeValues : \E dt \in {0, 1} : AppendMore("A", <<"a">>, v, dt)
AppendGet == \E id \in AppendReaders : Get(id, <<"a">>)

NextAppend == AppendPut \/ AppendAppend \/ AppendGet

SpecAppend == Init /\ [][NextAppend]_vars

TypeOK ==
    /\ clock \in 0..MaxClock
    /\ \A p \in Paths : fs[p].kind \in {"none", "file", "dir"}
    /\ \A c \in CacheIds : Len(cache[c]) <= CacheSize

(***************************************************************************)
(* The outcome of a call in the current state.                             *)
(***************************************************************************)
CacheOf(id) == cache[H(id).cache]

put(id, k, v) == _internal_put(fs, CacheOf(id), H(id), k, v, FALSE, clock)
delete(id, k, ig) == _internal_delete(fs, CacheOf(id), H(id), k, ig, clock)
copy_move(id, s, d, is_move) == _internal_copy_move(fs, CacheOf(id), H(id), s, d, is_move, clock)

\* some strict non-empty prefix of the key is a leaf
HasLeafPrefix(id, k) == \E i \in 1..(Len(k) - 1) : isfile(fs, KeyPath(id, SubSeq(k, 1, i)))

\* no directory above the path is a leaf
NoLeafAbove(p) == \A i \in 0..(Len(p) - 1) : ~isfile(fs, SubSeq(p, 1, i))

IntVals == {IntVal(i) : i \in Ints}

(***************************************************************************)
(* C1: on a writable handle, for every non-empty key that has no leaf      *)
(* above it and is not a subtree, and for every value v, put(k, v)         *)
(* succeeds and a get(k) right after it through the same handle returns v, *)
(* whatever the cache held for the path before the put.                    *)
(***************************************************************************)
C1_PutThenGet ==
    \A id \in LookupHandles : \A k \in LookupKeys(id) \ {<<>>} : \A v \in PutValues :
        LET r == put(id, k, v)
            g == get(r.fs, r.cache, H(id), k)
        IN  (writable(H(id)) /\ NoLeafAbove(KeyPath(id, k)) /\ ~isdir(fs, KeyPath(id, k)))
                => (r.res = "ok" /\ g.res = "ok" /\ g.ret = v)

\* a get returned the value of a leaf that a put wrote, and the cache has it
C1_Witness ==
    /\ last.op = "get" /\ last.h = "A" /\ last.res = "ok" /\ last.ret = IntVal(2)
    /\ isfile(fs, <<"a">>) /\ read(fs, <<"a">>) = IntVal(2)
    /\ CacheHas(cache["cA"], <<"a">>) /\ CacheAt(cache["cA"], <<"a">>).val = IntVal(2)

(***************************************************************************)
(* C2: with A and B on one root and a cache each, when every write changes *)
(* the stat of its path: once B holds a cached leaf for k, a put(k, v)     *)
(* through A makes the next get(k) through B return v; and whenever k is a *)
(* leaf, the get of either handle returns what the file holds now.         *)
(***************************************************************************)
C2_Coherent ==
    /\ \A k \in LookupKeys("B") \ {<<>>} : \A v \in CacheValues :
          LET r == _internal_put(fs, cache["cA"], H("A"), k, v, FALSE, clock + 1)
          IN  (/\ CacheHas(cache["cB"], KeyPath("B", k))
               /\ ~IsChildVal(CacheAt(cache["cB"], KeyPath("B", k)).val)
               /\ r.res = "ok")
                  => get(r.fs, cache["cB"], H("B"), k).ret = v
    /\ \A id \in CacheHandles : \A k \in LookupKeys(id) \ {<<>>} :
          isfile(fs, KeyPath(id, k)) =>
              get(fs, CacheOf(id), H(id), k).ret = read(fs, KeyPath(id, k))

\* B holds the value 1 it read from a, and A has put 2 there since
C2_Witness ==
    /\ last.op = "put" /\ last.h = "A" /\ last.res = "ok"
    /\ CacheHas(cache["cB"], <<"a">>) /\ CacheAt(cache["cB"], <<"a">>).val = IntVal(1)
    /\ isfile(fs, <<"a">>) /\ read(fs, <<"a">>) = IntVal(2)

(***************************************************************************)
(* C3: when a strict non-empty prefix of the key is a leaf, get and        *)
(* get_child fail with DataSubItem through every handle; put, delete, copy *)
(* and move with that key as source or destination fail with DataSubItem   *)
(* through a writable handle and with AccessViolation through a read-only  *)
(* one; the tree on disk stays as it is.                                   *)
(***************************************************************************)
\* every modifier using key k fails with error e and leaves the tree alone
ModifiersFail(id, k, e) ==
    /\ \A v \in PutValues : put(id, k, v).res = e /\ put(id, k, v).fs = fs
    /\ \A ig \in BOOLEAN : delete(id, k, ig).res = e /\ delete(id, k, ig).fs = fs
    /\ \A d \in LookupKeys(id) : \A mv \in BOOLEAN :
          /\ copy_move(id, k, d, mv).res = e /\ copy_move(id, k, d, mv).fs = fs
          /\ copy_move(id, d, k, mv).res = e /\ copy_move(id, d, k, mv).fs = fs

LookupsFail(id, k, e) ==
    /\ get(fs, CacheOf(id), H(id), k).res = e
    /\ get_child(fs, CacheOf(id), H(id), k).res = e

C3_SubItem ==
    \A id \in LookupHandles : \A k \in LookupKeys(id) :
        HasLeafPrefix(id, k) =>
            /\ LookupsFail(id, k, "DataSubItem")
            /\ ModifiersFail(id, k, IF writable(H(id)) THEN "DataSubItem" ELSE "AccessViolation")

\* the claim as it stands: DataSubItem through every handle
C3_SubItemAnyHandle ==
    \A id \in LookupHandles : \A k \in LookupKeys(id) :
        HasLeafPrefix(id, k) =>
            LookupsFail(id, k, "DataSubItem") /\ ModifiersFail(id, k, "DataSubItem")

\* a put below the leaf a was refused
C3_Witness ==
    /\ last.op = "put" /\ last.h = "A" /\ last.res = "DataSubItem"
    /\ isfile(fs, <<"a">>)

(***************************************************************************)
(* C4: put(k, v) on a key that is a subtree, empty or not, fails with      *)
(* DataOverChild through a writable handle (AccessViolation through a      *)
(* read-only one), leaves the tree as it is, and a get(k) after it returns *)
(* the handle of the subtree.                                              *)
(***************************************************************************)
PutOverChild(id, k, v, e) ==
    LET r == put(id, k, v)
        g == get(r.fs, r.cache, H(id), k)
    IN  /\ r.res = e
        /\ r.fs = fs
        /\ g.res = "ok" /\ IsChildVal(g.ret) /\ g.ret.path = KeyPath(id, k)

C4_PutOverChild ==
    \A id \in LookupHandles : \A k \in LookupKeys(id) : \A v \in PutValues :
        isdir(fs, KeyPath(id, k)) =>
            PutOverChild(id, k, v, IF writable(H(id)) THEN "DataOverChild" ELSE "AccessViolation")

\* the claim as it stands: DataOverChild through every handle
C4_PutOverChildAnyHandle ==
    \A id \in LookupHandles : \A k \in LookupKeys(id) : \A v \in PutValues :
        isdir(fs, KeyPath(id, k)) => PutOverChild(id, k, v, "DataOverChild")

\* a put on the subtree a, which holds the leaf (a, x), was refused
C4_Witness ==
    /\ last.op = "put" /\ last.h = "A" /\ last.res = "DataOverChild"
    /\ isdir(fs, <<"a">>) /\ isfile(fs, <<"a", "x">>)

(***************************************************************************)
(* C6: through a read-only handle put, delete, copy and move fail with     *)
(* AccessViolation whether their keys exist or not and change nothing on   *)
(* disk; get_child fails with AccessViolation when its key is absent,      *)
(* returns the subtree's handle when the key is a subtree and fails with   *)
(* NotIncludeData when it is a leaf.                                       *)
(***************************************************************************)
ReadOnlyModifiers(id) == \A k \in LookupKeys(id) : ModifiersFail(id, k, "AccessViolation")

Same(e1, e2) == e1.kind = e2.kind /\ e1.data = e2.data

\* what g holds at and below dp is what f holds at and below sp
SubtreeEq(g, dp, f, sp) ==
    /\ \A q \in Paths : IsPrefix(dp, q) =>
          IF Rebase(q, dp, sp) \in Paths THEN Same(g[q], f[Rebase(q, dp, sp)]) ELSE ~exists(g, q)
    /\ \A o \in Paths : (IsPrefix(sp, o) /\ exists(f, o)) =>
          Rebase(o, sp, dp) \in Paths /\ Same(g[Rebase(o, sp, dp)], f[o])

MoveOverFullChild(id, s, d, e) ==
    (/\ isdir(fs, KeyPath(id, s)) /\ isdir(fs, KeyPath(id, d))
     /\ listdir(fs, KeyPath(id, d)) # {})
        => copy_move(id, s, d, TRUE).res = e /\ copy_move(id, s, d, TRUE).fs = fs

MoveOverEmptyChild(id, s, d) ==
    (/\ isdir(fs, KeyPath(id, s)) /\ isdir(fs, KeyPath(id, d))
     /\ listdir(fs, KeyPath(id, d)) = {}
     /\ InBounds(KeyPath(id, s), KeyPath(id, d), TRUE))
        => /\ copy_move(id, s, d, TRUE).res = "ok"
           /\ ~exists(copy_move(id, s, d, TRUE).fs, KeyPath(id, s))
           /\ SubtreeEq(copy_move(id, s, d, TRUE).fs, KeyPath(id, d), fs, KeyPath(id, s))

C7_MoveChildOverChild ==
    \A id \in TreeHandles : \A s \in Keys(id) : \A d \in Keys(id) :
        writable(H(id)) =>
            /\ MoveOverFullChild(id, s, d, "ChildOverChild")
            /\ ~IsPrefix(KeyPath(id, s), KeyPath(id, d)) => MoveOverEmptyChild(id, s, d)

\* the claim as it stands: any handle, any subtree without entries as dst
C7_MoveChildOverChildAny ==
    \A id \in TreeHandles : \A s \in Keys(id) : \A d \in Keys(id) :
        MoveOverFullChild(id, s, d, "ChildOverChild") /\ MoveOverEmptyChild(id, s, d)

\* the move of a subtree onto the subtree b, which holds (b, x), was refused
C7_Witness ==
    /\ last.op = "move" /\ last.h = "A" /\ last.res = "ChildOverChild"
    /\ isdir(fs, <<"a">>) /\ isdir(fs, <<"b">>) /\ exists(fs, <<"b", "x">>)

(***************************************************************************)
(* C8: through a writable handle, copy and move of a leaf onto a subtree   *)
(* fail with DataOverChild and those of a subtree onto a leaf with         *)
(* ChildOverData; the tree stays as it is.                                 *)
(***************************************************************************)
TypeConflict(id, s, d, mv, e_leaf, e_child) ==
    /\ (isfile(fs, KeyPath(id, s)) /\ isdir(fs, KeyPath(id, d)))
          => copy_move(id, s, d, mv).res = e_leaf /\ copy_move(id, s, d, mv).fs = fs
    /\ (isdir(fs, KeyPath(id, s)) /\ isfile(fs, KeyPath(id, d)))
          => copy_move(id, s, d, mv).res = e_child /\ copy_move(id, s, d, mv).fs = fs

C8_TypeConflict ==
    \A id \in TreeHandles : \A s \in Keys(id) : \A d \in Keys(id) : \A mv \in BOOLEAN :
        writable(H(id)) => TypeConflict(id, s, d, mv, "DataOverChild", "ChildOverData")

\* the claim as it stands: through every handle
C8_TypeConflictAnyHandle ==
    \A id \in TreeHandles : \A s \in Keys(id) : \A d \in Keys(id) : \A mv \in BOOLEAN :
        TypeConflict(id, s, d, mv, "DataOverChild", "ChildOverData")

\* the copy of a subtree onto a leaf was refused
C8_Witness ==
    /\ last.op = "copy" /\ last.h = "A" /\ last.res = "ChildOverData"
    /\ isdir(fs, <<"a">>) /\ isfile(fs, <<"b">>)

(***************************************************************************)
(* C9: after a successful move(src, dst) with dst other than src, src is   *)
(* absent, dst holds what src held, the directories above dst exist, and   *)
(* nothing else changed but the directories made above dst.                *)
(***************************************************************************)
MoveEffect(g, sp, dp) ==
    /\ ~exists(g, sp)
    /\ SubtreeEq(g, dp, fs, sp)
    /\ \A i \in 0..(Len(dp) - 1) : isdir(g, SubSeq(dp, 1, i))
    /\ \A q \in Paths : (~IsPrefix(sp, q) /\ ~IsPrefix(dp, q)) =>
          IF IsStrictPrefix(q, dp) /\ ~exists(fs, q) THEN isdir(g, q) ELSE Same(g[q], fs[q])

MoveDone(id, s, d) ==
    (copy_move(id, s, d, TRUE).res = "ok" /\ InBounds(KeyPath(id, s), KeyPath(id, d), TRUE))
        => MoveEffect(copy_move(id, s, d, TRUE).fs, KeyPath(id, s), KeyPath(id, d))

C9_MoveEffect ==
    \A id \in TreeHandles : \A s \in Keys(id) : \A d \in Keys(id) :
        s # d => MoveDone(id, s, d)

\* the claim as it stands: every successful move
C9_MoveEffectAny ==
    \A id \in TreeHandles : \A s \in Keys(id) : \A d \in Keys(id) : MoveDone(id, s, d)

\* a move succeeded; a is gone and b is a subtree with the leaf (b, x)
C9_Witness ==
    /\ last.op = "move" /\ last.h = "A" /\ last.res = "ok"
    /\ ~exists(fs, <<"a">>) /\ isdir(fs, <<"b">>) /\ isfile(fs, <<"b", "x">>)

(***************************************************************************)
(* C10: after a successful copy(src, dst), src and what is below it are as *)
(* before and dst holds an equal entry: the same leaf value, or a subtree  *)
(* with the same keys and values at every depth.                           *)
(***************************************************************************)
CopyEffect(g, sp, dp) ==
    /\ \A q \in Paths : IsPrefix(sp, q) => Same(g[q], fs[q])
    /\ SubtreeEq(g, dp, g, sp)

C10_CopyEffect ==
    \A id \in TreeHandles : \A s \in Keys(id) : \A d \in Keys(id) :
        (copy_move(id, s, d, FALSE).res = "ok" /\ InBounds(KeyPath(id, s), KeyPath(id, d), FALSE))
            => CopyEffect(copy_move(id, s, d, FALSE).fs, KeyPath(id, s), KeyPath(id, d))

(***************************************************************************)
(* C11: through a writable handle, with no leaf above src or dst, copy and *)
(* move of an absent src fail with NoSuchKey and leave the tree as it is:  *)
(* neither dst nor a directory above dst is made.                          *)
(***************************************************************************)
AbsentSource(id, s, d, mv) ==
    ~exists(fs, KeyPath(id, s))
        => copy_move(id, s, d, mv).res = "NoSuchKey" /\ copy_move(id, s, d, mv).fs = fs

C11_NoSuchSource ==
    \A id \in TreeHandles : \A s \in Keys(id) : \A d \in Keys(id) : \A mv \in BOOLEAN :
        (writable(H(id)) /\ ~HasLeafPrefix(id, s) /\ ~HasLeafPrefix(id, d))
            => AbsentSource(id, s, d, mv)

\* the claim as it stands: every handle, every absent src
C11_NoSuchSourceAny ==
    \A id \in TreeHandles : \A s \in Keys(id) : \A d \in Keys(id) : \A mv \in BOOLEAN :
        AbsentSource(id, s, d, mv)

\* a copy with an absent source was refused, and b is still absent
C11_Witness ==
    /\ last.op = "copy" /\ last.h = "A" /\ last.res = "NoSuchKey"
    /\ isdir(fs, <<"a">>) /\ ~exists(fs, <<"b">>)

(***************************************************************************)
(* C12: after a successful put(k, v), exists(k) and value_exists(k) are    *)
(* true and child_exists(k) is false; after a successful delete(k), of a   *)
(* leaf or of a subtree, the three are false and nothing is left at or     *)
(* below k.                                                                *)
(***************************************************************************)
Answers(g, id, k, e, ve, ce) ==
    /\ item_exists(g, H(id), k) = [res |-> "ok", ret |-> e]
    /\ value_exists(g, H(id), k) = [res |-> "ok", ret |-> ve]
    /\ child_exists(g, H(id), k) = [res |-> "ok", ret |-> ce]

C12_ExistsAfter ==
    \A id \in TreeHandles : \A k \in Keys(id) :
        /\ \A v \in TreeValues :
              put(id, k, v).res = "ok" => Answers(put(id, k, v).fs, id, k, TRUE, TRUE, FALSE)
        /\ \A ig \in BOOLEAN :
              delete(id, k, ig).res = "ok"
                  => /\ Answers(delete(id, k, ig).fs, id, k, FALSE, FALSE, FALSE)
                     /\ \A q \in Paths : IsPrefix(KeyPath(id, k), q) => ~exists(delete(id, k, ig).fs, q)

\* the subtree a with its leaf (a, x) has been deleted, the leaf b is there
C12_Witness ==
    /\ last.op = "delete" /\ last.h = "A" /\ last.res = "ok"
    /\ ~exists(fs, <<"a">>) /\ ~exists(fs, <<"a", "x">>) /\ isfile(fs, <<"b">>)

(***************************************************************************)
(* C13: through a writable handle, with no leaf above k, delete(k) of an   *)
(* absent key fails with NoSuchKey, or returns normally when told to       *)
(* ignore errors; the tree stays as it is in both cases.                   *)
(***************************************************************************)
DeleteAbsent(id, k) ==
    ~exists(fs, KeyPath(id, k))
        => /\ delete(id, k, FALSE).res = "NoSuchKey" /\ delete(id, k, FALSE).fs = fs
           /\ delete(id, k, TRUE).res = "ok" /\ delete(id, k, TRUE).fs = fs

C13_DeleteAbsent ==
    \A id \in TreeHandles : \A k \in Keys(id) :
        (writable(H(id)) /\ ~HasLeafPrefix(id, k)) => DeleteAbsent(id, k)

\* the claim as it stands: every handle, every absent key
C13_DeleteAbsentAny ==
    \A id \in TreeHandles : \A k \in Keys(id) : DeleteAbsent(id, k)

\* a delete of the absent key (a, x) in the subtree a was refused
C13_Witness ==
    /\ last.op = "delete" /\ last.h = "A" /\ last.res = "NoSuchKey"
    /\ isdir(fs, <<"a">>) /\ ~exists(fs, <<"a", "x">>)

(***************************************************************************)
(* C14: a get that finds a cache entry whose stat differs from what        *)
(* os.stat yields now, the path being absent included, answers as a direct *)
(* lookup of the filesystem does and leaves no entry with the old stat:    *)
(* after the key is deleted, the get yields the default, not the cached    *)
(* value, and the entry is gone.                                           *)
(***************************************************************************)
StaleEntry(id, k) ==
    /\ _internal_verify_item(fs, H(id), k) = "ok"
    /\ CacheHas(CacheOf(id), KeyPath(id, k))
    /\ CacheAt(CacheOf(id), KeyPath(id, k)).stat # stat(fs, KeyPath(id, k))

C14_StaleDropped ==
    \A id \in CacheHandles : \A k \in LookupKeys(id) \ {<<>>} :
        LET g == get(fs, CacheOf(id), H(id), k)
            d == _internal_get_direct(fs, H(id), KeyPath(id, k), None, FALSE, TRUE, TRUE, FALSE)
        IN  StaleEntry(id, k) =>
                /\ g.res = d.res /\ g.ret = d.ret
                /\ CacheHas(g.cache, KeyPath(id, k))
                      => CacheAt(g.cache, KeyPath(id, k)).stat = stat(fs, KeyPath(id, k))
                /\ ~exists(fs, KeyPath(id, k))
                      => g.res = "ok" /\ g.ret = None /\ ~CacheHas(g.cache, KeyPath(id, k))

\* B holds the value it read from a, and A has deleted a since
C14_Witness ==
    /\ last.op = "delete" /\ last.h = "A" /\ last.res = "ok"
    /\ CacheHas(cache["cB"], <<"a">>) /\ CacheAt(cache["cB"], <<"a">>).val \in IntVals
    /\ ~exists(fs, <<"a">>)

(***************************************************************************)
(* C15: after a successful put, delete, copy or move the cache of the      *)
(* handle holds no entry for the path of the put or delete, for the source *)
(* of the move, or for the destination of the copy or move.                *)
(***************************************************************************)
C15_Invalidated ==
    \A id \in LookupHandles : \A k \in LookupKeys(id) :
        /\ \A v \in PutValues :
              put(id, k, v).res = "ok" => ~CacheHas(put(id, k, v).cache, KeyPath(id, k))
        /\ delete(id, k, FALSE).res = "ok" => ~CacheHas(delete(id, k, FALSE).cache, KeyPath(id, k))
        /\ \A d \in LookupKeys(id) :
              /\ copy_move(id, k, d, FALSE).res = "ok"
                    => ~CacheHas(copy_move(id, k, d, FALSE).cache, KeyPath(id, d))
              /\ copy_move(id, k, d, TRUE).res = "ok"
                    => /\ ~CacheHas(copy_move(id, k, d, TRUE).cache, KeyPath(id, d))
                       /\ ~CacheHas(copy_move(id, k, d, TRUE).cache, KeyPath(id, k))

(***************************************************************************)
(* C16: two handles that share a cache have the same store engine and the  *)
(* same compression level, whether a handle was made from another handle   *)
(* or returned as a subtree handle.                                        *)
(***************************************************************************)
C16_SharedAgree ==
    \A h1 \in handles : \A h2 \in handles :
        h1.cache = h2.cache
            => h1.store_engine = h2.store_engine /\ h1.compress_level = h2.compress_level

(***************************************************************************)
(* C17: a cache never holds more entries than its capacity, nor two for    *)
(* one path.  A get that finds a valid entry makes it the most recently    *)
(* used and keeps the others in order; a get that stores an entry for a    *)
(* path the cache lacks puts it first and, the cache being full, drops the *)
(* least recently used entry and no other.  So an entry that a get has     *)
(* just hit stays when the next get stores a new one.                      *)
(***************************************************************************)
ValidEntry(c, p) == CacheHas(c, p) /\ CacheAt(c, p).stat = stat(fs, p)

C17_LRU ==
    /\ \A cid \in CacheIds :
          /\ Len(cache[cid]) <= LRU(CacheSize)
          /\ \A i \in 1..Len(cache[cid]) : \A j \in 1..Len(cache[cid]) :
                cache[cid][i].path = cache[cid][j].path => i = j
    /\ \A k \in Keys("A") \ {<<>>} :
          LET c == cache["cA"]
              p == KeyPath("A", k)
              g == get(fs, c, H("A"), k)
          IN  /\ (_internal_verify_item(fs, H("A"), k) = "ok" /\ ValidEntry(c, p))
                    => g.cache = <<CacheAt(c, p)>> \o CacheWithout(c, p)
              /\ (~CacheHas(c, p) /\ CacheHas(g.cache, p))
                    => g.cache = <<CacheAt(g.cache, p)>>
                                    \o (IF Len(c) = LRU(CacheSize) THEN SubSeq(c, 1, Len(c) - 1) ELSE c)
              /\ \A k2 \in Keys("A") \ {<<>>} :
                    LET g2 == get(fs, g.cache, H("A"), k2)
                    IN  (/\ _internal_verify_item(fs, H("A"), k) = "ok" /\ ValidEntry(c, p)
                         /\ ~CacheHas(c, KeyPath("A", k2)) /\ CacheHas(g2.cache, KeyPath("A", k2))
                         /\ LRU(CacheSize) >= 2)
                            => CacheHas(g2.cache, p)

\* the cache is full, the subtree b is not in it, and a get has just been served
C17_Witness ==
    /\ last.op = "get" /\ last.res = "ok"
    /\ Len(cache["cA"]) = LRU(CacheSize)
    /\ isdir(fs, <<"b">>) /\ isfile(fs, <<"b", "x">>) /\ ~CacheHas(cache["cA"], <<"b", "x">>)
    /\ ValidEntry(cache["cA"], cache["cA"][Len(cache["cA"])].path)

(***************************************************************************)
(* C18: for a query made of exact segments and wildcard tokens, search     *)
(* with the items projection yields exactly the existing keys that have    *)
(* the length of the query, equal its exact segments at their positions,   *)
(* have only subtrees as strict prefixes and pass the filter on subtrees   *)
(* and leaves, each once, paired with its current value: the objects of a  *)
(* leaf, a handle of a subtree.  A key of one segment is yielded as the    *)
(* segment.                                                                *)
(***************************************************************************)
SearchOut(id, item, p) ==
    search(fs, CacheOf(id), H(id), item, p.include_child, p.include_data, TRUE, TRUE)

\* the key a yielded key stands for
AsKey(y) == IF y.t = "str" THEN <<y.s>> ELSE y.k

YieldedKeys(r) == {AsKey(r.ret[i].key) : i \in 1..Len(r.ret)}

CurrentValue(path, v) ==
    IF isdir(fs, path) THEN IsChildVal(v) /\ v.path = path ELSE v = read(fs, path)

WildTokens == {Exact("a"), Exact("x"), Slice}
WildQueries == UNION {[1..n -> WildTokens] : n \in 1..MaxQuery}

\* the key of path q below the handle, and the keys that match a query
KeyOf(id, q) == SubSeq(q, Len(H(id).root) + 1, Len(q))

Matches(id, item, p) ==
    {KeyOf(id, q) : q \in
        {q \in Paths :
            /\ IsPrefix(H(id).root, q)
            /\ Len(KeyOf(id, q)) = Len(item)
            /\ \A i \in 1..Len(item) : item[i].t = "seg" => KeyOf(id, q)[i] = item[i].s
            /\ \A i \in (Len(H(id).root) + 1)..(Len(q) - 1) : isdir(fs, SubSeq(q, 1, i))
            /\ \/ p.include_child /\ isdir(fs, q)
               \/ p.include_data /\ isfile(fs, q)}}

C18_WildcardItems ==
    \A id \in SearchHandles : \A item \in WildQueries : \A p \in Projections :
        LET r == SearchOut(id, item, p)
        IN  /\ r.res = "ok"
            /\ YieldedKeys(r) = Matches(id, item, p)
            /\ Len(r.ret) = Cardinality(Matches(id, item, p))
            /\ \A i \in 1..Len(r.ret) :
                    CurrentValue(KeyPath(id, AsKey(r.ret[i].key)), r.ret[i].value)

\* [:, 'x'] met the leaf b and the subtree a, and yielded the one key below a
C18_Witness ==
    /\ last.op = "search" /\ last.h = "A" /\ last.res = "ok"
    /\ isfile(fs, <<"b">>) /\ isfile(fs, <<"a", "x">>)
    /\ last.ret = <<[key |-> TupleKey(<<"a", "x">>), value |-> IntVal(1)]>>

(***************************************************************************)
(* C19: a recursive token that is not the last element of the query,       *)
(* followed by an exact segment s, yields the key p + (s) for every        *)
(* subtree p at any depth below the position of the token, the position    *)
(* itself included, for which p + (s) exists and passes the final filter,  *)
(* each once, and nothing else.  The position is the handle, or a subtree  *)
(* named by the exact segments ahead of the token.                         *)
(***************************************************************************)
Positions == {<<>>, <<"a">>}

RecursiveQuery(pos, s) == [i \in 1..Len(pos) |-> Exact(pos[i])] \o <<EllipsisTok, Exact(s)>>

RecursiveMatches(id, pos, s, p) ==
    {KeyOf(id, q) : q \in
        {q \in Paths :
            /\ Len(q) > 0 /\ Basename(q) = s
            /\ IsPrefix(KeyPath(id, pos), Parent(q))
            /\ isdir(fs, Parent(q))
            /\ \/ p.include_child /\ isdir(fs, q)
               \/ p.include_data /\ isfile(fs, q)}}

C19_RecursiveThenExact ==
    \A id \in SearchHandles : \A pos \in Positions : \A s \in Names : \A p \in Projections :
        LET r == SearchOut(id, RecursiveQuery(pos, s), p)
        IN  /\ r.res = "ok"
            /\ YieldedKeys(r) = RecursiveMatches(id, pos, s, p)
            /\ Len(r.ret) = Cardinality(RecursiveMatches(id, pos, s, p))

\* [..., 'x'] below a yielded x, the key at the position itself
C19_Witness ==
    /\ last.op = "search" /\ last.h = "S" /\ last.res = "ok"
    /\ isfile(fs, <<"a", "x">>)
    /\ RecursiveMatches("S", <<>>, "x", [include_child |-> TRUE, include_data |-> TRUE]) = {<<"x">>}
    /\ last.ret = <<[key |-> StrKey("x"), value |-> IntVal(1)]>>

(***************************************************************************)
(* C20: during a search, a branch whose concrete run, not the last element *)
(* of the query, is absent or a leaf, and a leaf child met at a token that *)
(* is not the last element, yield nothing and raise no error; the matches  *)
(* of the other branches are yielded all the same.                         *)
(***************************************************************************)
ItemsProjection == [include_child |-> TRUE, include_data |-> TRUE]

DropTokens == {Exact("a"), Exact("x"), Slice, Pattern({"a"})}
DropQueries == UNION {[1..n -> DropTokens] : n \in 2..MaxQuery}

\* the segments ahead of the first token, when a token follows them
LeadingRun(item) ==
    LET stops == {i \in 1..Len(item) : _is_search_type(item[i])}
        n == (CHOOSE i \in stops : \A j \in stops : i <= j) - 1
    IN  IF stops = {} THEN <<>> ELSE [i \in 1..n |-> item[i].s]

TokenMatch(tok, seg) ==
    CASE tok.t = "seg" -> seg = tok.s
      [] tok.t = "slice" -> TRUE
      [] tok.t = "pattern" -> seg \in tok.m

\* the keys that match the query and lie on a branch of subtrees only
BranchMatches(id, item) ==
    {KeyOf(id, q) : q \in
        {q \in Paths :
            /\ IsPrefix(H(id).root, q)
            /\ Len(KeyOf(id, q)) = Len(item)
            /\ \A i \in 1..Len(item) : TokenMatch(item[i], KeyOf(id, q)[i])
            /\ \A i \in (Len(H(id).root) + 1)..(Len(q) - 1) : isdir(fs, SubSeq(q, 1, i))
            /\ exists(fs, q)}}

C20_DroppedBranches ==
    \A id \in SearchHandles : \A item \in DropQueries :
        LET r == SearchOut(id, item, ItemsProjection)
            run == LeadingRun(item)
        IN  /\ r.res = "ok"
            /\ (run # <<>> /\ ~_internal_path_exists(fs, KeyPath(id, run), TRUE, FALSE)) => r.ret = <<>>
            /\ \A k \in YieldedKeys(r) : \A i \in 1..(Len(k) - 1) : isdir(fs, KeyPath(id, SubSeq(k, 1, i)))
            /\ BranchMatches(id, item) \subseteq YieldedKeys(r)

\* below a, where x is a leaf, a search that had to go on below x yielded nothing
C20_Witness ==
    /\ last.op = "search" /\ last.h = "S" /\ last.res = "ok" /\ last.ret = <<>>
    /\ isfile(fs, <<"a", "x">>) /\ isfile(fs, <<"b">>)
    /\ LeadingRun(<<Exact("x"), Slice>>) = <<"x">>
    /\ ~_internal_path_exists(fs, KeyPath("S", <<"x">>), TRUE, FALSE)

(***************************************************************************)
(* C21: for any query, the keys yielded with subtrees only and the keys    *)
(* yielded with leaves only are disjoint, and together they are the keys   *)
(* yielded with both; the keys, values and items projections of a query    *)
(* describe the same matches; the filter is applied to the last element of *)
(* the query only, so a subtree is descended into even when subtrees are   *)
(* excluded from the result.                                               *)
(***************************************************************************)
KeysOut(id, item, include_child, include_data) ==
    search(fs, CacheOf(id), H(id), item, include_child, include_data, TRUE, FALSE)
ValuesOut(id, item, include_child, include_data) ==
    search(fs, CacheOf(id), H(id), item, include_child, include_data, FALSE, TRUE)
ItemsOut(id, item, include_child, include_data) ==
    search(fs, CacheOf(id), H(id), item, include_child, include_data, TRUE, TRUE)

KeySet(r) == {r.ret[i].key : i \in 1..Len(r.ret)}

ProjectionsAgree(id, item) ==
    LET child_keys == KeysOut(id, item, TRUE, FALSE)
        data_keys == KeysOut(id, item, FALSE, TRUE)
        keys == KeysOut(id, item, TRUE, TRUE)
    IN  /\ child_keys.res = "ok" /\ data_keys.res = "ok" /\ keys.res = "ok"
        /\ KeySet(child_keys) \cap KeySet(data_keys) = {}
        /\ KeySet(child_keys) \cup KeySet(data_keys) = KeySet(keys)
        /\ \A k \in KeySet(child_keys) : isdir(fs, KeyPath(id, AsKey(k)))
        /\ \A k \in KeySet(data_keys) : isfile(fs, KeyPath(id, AsKey(k)))
        /\ \A p \in Projections :
              LET ks == KeysOut(id, item, p.include_child, p.include_data)
                  vs == ValuesOut(id, item, p.include_child, p.include_data)
                  is == ItemsOut(id, item, p.include_child, p.include_data)
              IN  /\ vs.res = "ok" /\ is.res = "ok"
                  /\ Len(is.ret) = Len(ks.ret) /\ Len(vs.ret) = Len(ks.ret)
                  /\ \A i \in 1..Len(is.ret) :
                        is.ret[i].key = ks.ret[i].key /\ is.ret[i].value = vs.ret[i].value

C21_Projections ==
    \A id \in SearchHandles : \A item \in SearchQueries \cup WildQueries : ProjectionsAgree(id, item)

(***************************************************************************)
(* C22: a pattern token matches exactly the immediate children of its      *)
(* position whose segment the pattern matches; a child whose segment it    *)
(* does not match yields nothing and is not descended into.  A pattern is  *)
(* known by the set of names its match accepts.                            *)
(***************************************************************************)
PatternSets == {{}, {"a"}, {"a", "b"}, {"b", "x"}}
PatternQueries ==
    UNION {{<<Pattern(m)>>, <<Pattern(m), Exact("x")>>, <<Pattern(m), Slice>>,
            <<Slice, Pattern(m)>>, <<Exact("a"), Pattern(m)>>, <<Pattern(m), Pattern(m)>>} :
           m \in PatternSets}

\* the keys that match the query element by element, on a branch of subtrees,
\* and pass the filter
PatternMatches(id, item, p) ==
    {KeyOf(id, q) : q \in
        {q \in Paths :
            /\ IsPrefix(H(id).root, q)
            /\ Len(KeyOf(id, q)) = Len(item)
            /\ \A i \in 1..Len(item) : TokenMatch(item[i], KeyOf(id, q)[i])
            /\ \A i \in (Len(H(id).root) + 1)..(Len(q) - 1) : isdir(fs, SubSeq(q, 1, i))
            /\ \/ p.include_child /\ isdir(fs, q)
               \/ p.include_data /\ isfile(fs, q)}}

C22_PatternToken ==
    \A id \in SearchHandles : \A item \in PatternQueries : \A p \in Projections :
        LET r == SearchOut(id, item, p)
        IN  /\ r.res = "ok"
            /\ YieldedKeys(r) = PatternMatches(id, item, p)
            /\ Len(r.ret) = Cardinality(PatternMatches(id, item, p))

\* [re.compile('a'), 'x'] yielded the key below a and not the one below b
C22_Witness ==
    /\ last.op = "search" /\ last.h = "A" /\ last.res = "ok"
    /\ isfile(fs, <<"a", "x">>) /\ isfile(fs, <<"b", "x">>)
    /\ last.ret = <<[key |-> TupleKey(<<"a", "x">>), value |-> IntVal(1)]>>

(***************************************************************************)
(* C23: walk over a handle yields the root key () when subtrees are        *)
(* included and every descendant, at every depth, once: all of them when   *)
(* subtrees and leaves are included, the leaves and not the root when      *)
(* subtrees are excluded, the root and the subtrees when leaves are        *)
(* excluded.  Where the root of the handle is a directory the values come  *)
(* with the keys.                                                          *)
(***************************************************************************)
WalkKeys(id, p) == walk(fs, CacheOf(id), H(id), p.include_child, p.include_data, TRUE, FALSE)
WalkItems(id, p) == walk(fs, CacheOf(id), H(id), p.include_child, p.include_data, TRUE, TRUE)

\* the keys of the paths that lie below the root of the handle
Descendants(id, p) ==
    {KeyOf(id, q) : q \in
        {q \in Paths :
            /\ IsStrictPrefix(H(id).root, q)
            /\ \/ p.include_child /\ isdir(fs, q)
               \/ p.include_data /\ isfile(fs, q)}}

WalkExpected(id, p) == (IF p.include_child THEN {<<>>} ELSE {}) \cup Descendants(id, p)

C23_Walk ==
    \A id \in SearchHandles : \A p \in Projections :
        LET ks == WalkKeys(id, p)
            is == WalkItems(id, p)
        IN  /\ ks.res = "ok"
            /\ YieldedKeys(ks) = WalkExpected(id, p)
            /\ Len(ks.ret) = Cardinality(WalkExpected(id, p))
            /\ isdir(fs, H(id).root) =>
                    /\ is.res = "ok"
                    /\ Len(is.ret) = Len(ks.ret)
                    /\ \A i \in 1..Len(is.ret) :
                          /\ is.ret[i].key = ks.ret[i].key
                          /\ CurrentValue(KeyPath(id, AsKey(is.ret[i].key)), is.ret[i].value)

\* the walk over the root handle met the root, the subtree a and the leaf below it
C23_Witness ==
    /\ last.op = "walk" /\ last.h = "A" /\ last.res = "ok"
    /\ isfile(fs, <<"a", "x">>) /\ ~exists(fs, <<"b">>)
    /\ {AsKey(last.ret[i].key) : i \in 1..Len(last.ret)} = {<<>>, <<"a">>, <<"a", "x">>}

C26_GetChildCreates ==
    \A id \in LookupHandles : \A k \in LookupKeys(id) :
        LET r == get_child(fs, CacheOf(id), H(id), k)
        IN  (writable(H(id)) /\ ~HasLeafPrefix(id, k) /\ ~exists(fs, KeyPath(id, k))) =>
                /\ r.res = "ok"
                /\ r.ret = ChildVal(KeyPath(id, k), "c")
                /\ child_exists(fs, H(id), k).ret
                /\ listdir(fs, KeyPath(id, k)) = {}

(***************************************************************************)
(* C27: opening a store with mode 'c' on an absent root path creates the   *)
(* root directory: the root is a subtree when the constructor has          *)
(* returned.                                                               *)
(***************************************************************************)
C27_OpenCreatesRoot ==
    \A data_path \in OpenPaths :
        LET r == NestedDictFS_init(fs, data_path, "c")
        IN  ~exists(fs, data_path) => r.res = "ok" /\ isdir(r.fs, data_path)

(***************************************************************************)
(* C28: opening a store on a path that is a file fails in every mode, 'c'  *)
(* included; opening an absent path with mode 'r' or 'w' fails; neither    *)
(* creates or changes anything on disk.                                    *)
(***************************************************************************)
C28_OpenFails ==
    \A data_path \in OpenPaths : \A mode \in OpenModes :
        LET r == NestedDictFS_init(fs, data_path, mode)
        IN  (isfile(fs, data_path) \/ (~exists(fs, data_path) /\ mode \in {"r", "w"})) =>
                r.res = "ValueError" /\ r.fs = fs

\* NestedDictFS(path of a, mode='c') failed on the leaf a
C28_Witness ==
    /\ last.op = "open_at" /\ last.res = "ValueError"
    /\ last.ret.data_path = <<"a">> /\ last.ret.mode = "c"
    /\ isfile(fs, <<"a">>)

(***************************************************************************)
(* C29: a call that is no search (get, put, delete, copy, move, exists,    *)
(* key_path) given a malformed key - a segment ".", ".." or one with the   *)
(* path separator, or a key with a wildcard, recursive or pattern token -  *)
(* fails with a key error, InvalidKey for the bad segment, and leaves the  *)
(* filesystem and the cache unchanged; segments such as ".a.." or "a.b"    *)
(* are accepted.                                                           *)
(***************************************************************************)
KeyErrors == {"InvalidKey", "NoSearchTerm"}
KeyErrorsOf(k) ==
    IF \E i \in 1..Len(k) : k[i] \in SearchTerms THEN KeyErrors ELSE {"InvalidKey"}
OddSegments == {".a..", "a.b", "a..b"}

Untouched(r, id) == r.fs = fs /\ r.cache = CacheOf(id)

\* get, exists and key_path of a malformed key
MalformedLookups(id, k) ==
    /\ get(fs, CacheOf(id), H(id), k).res \in KeyErrorsOf(k)
    /\ get(fs, CacheOf(id), H(id), k).cache = CacheOf(id)
    /\ item_exists(fs, H(id), k).res \in KeyErrorsOf(k)
    /\ child_exists(fs, H(id), k).res \in KeyErrorsOf(k)
    /\ value_exists(fs, H(id), k).res \in KeyErrorsOf(k)
    /\ key_path(fs, H(id), k).res \in KeyErrorsOf(k)

\* put and delete of a malformed key, copy and move from it
MalformedModifiers(id, k) ==
    /\ put(id, k, IntVal(1)).res \in KeyErrorsOf(k) /\ Untouched(put(id, k, IntVal(1)), id)
    /\ \A ig \in BOOLEAN :
            delete(id, k, ig).res \in KeyErrorsOf(k) /\ Untouched(delete(id, k, ig), id)
    /\ \A d \in Keys(id) : \A is_move \in BOOLEAN :
            /\ copy_move(id, k, d, is_move).res \in KeyErrorsOf(k)
            /\ Untouched(copy_move(id, k, d, is_move), id)

\* copy and move to a malformed key
MalformedDestination(id, s, k) ==
    \A is_move \in BOOLEAN :
        /\ copy_move(id, s, k, is_move).res \in KeyErrorsOf(k)
        /\ Untouched(copy_move(id, s, k, is_move), id)

OddAccepted(id) ==
    \A s \in OddSegments :
        /\ _internal_verify_item(fs, H(id), <<s>>) = "ok"
        /\ key_path(fs, H(id), <<s>>) = [res |-> "ok", ret |-> H(id).root \o <<s>>]

\* the claim as it stands: every handle, every source key
C29_MalformedKey ==
    \A id \in KeyHandles :
        /\ OddAccepted(id)
        /\ \A k \in MalformedKeys :
                /\ MalformedLookups(id, k)
                /\ MalformedModifiers(id, k)
                /\ \A s \in Keys(id) : MalformedDestination(id, s, k)

\* put, delete, copy and move through a writable handle, and copy and move to
\* a malformed key from a key with no leaf above it
C29_MalformedKeyWritable ==
    \A id \in KeyHandles :
        /\ OddAccepted(id)
        /\ \A k \in MalformedKeys :
                /\ MalformedLookups(id, k)
                /\ writable(H(id)) =>
                        /\ MalformedModifiers(id, k)
                        /\ \A s \in Keys(id) :
                                ~HasLeafPrefix(id, s) => MalformedDestination(id, s, k)

\* a put with a malformed key has failed on a tree with a leaf and a cached value
C29_Witness ==
    /\ last.op = "put" /\ last.h = "A" /\ last.res = "InvalidKey"
    /\ isfile(fs, <<"a", "x">>)
    /\ CacheOf("A") # <<>>

(***************************************************************************)
(* C30: after put(k, v0) and n >= 1 calls append(k, v1) .. append(k, vn),  *)
(* get(k) returns the list [v0, v1, .., vn] in the order of the appends; a *)
(* get between two appends returns the list of the values written so far,  *)
(* never a value cached before the latest append.                          *)
(***************************************************************************)
AppendValues == {None, IntVal(1)}

\* the writer, the reader on the same cache, the key of the writer
AppendCalls ==
    {<<"A", rd, k>> : rd \in AppendReaders, k \in {<<"a">>, <<"a", "x">>}}
        \cup {<<"S", "A", <<"x">>>>}

\* the disk a call leaves, every path of it looked up once
Disk(f) == f @@ f

\* n more appends, from the disk f and the cache c that hold the values
\* written: after each of them the reader gets all that was written, whether
\* or not a get was made after the append before it
RECURSIVE AppendsAgree(_, _, _, _, _, _, _)
AppendsAgree(f, c, id, rd, k, written, n) ==
    \/ n = 0
    \/ \A v \in AppendValues :
        \A r \in {_internal_put(f, c, H(id), k, v, TRUE, clock)} :
        \A g \in {Disk(r.fs)} :
        \A a \in {get(g, r.cache, H(rd), H(id).root \o k)} :
        \A w \in {written \o <<v>>} :
            /\ r.res = "ok"
            /\ a.res = "ok" /\ a.ret = ListVal(w)
            /\ AppendsAgree(g, a.cache, id, rd, k, w, n - 1)
            /\ AppendsAgree(g, r.cache, id, rd, k, w, n - 1)

C30_AppendOrder ==
    \A call \in AppendCalls : \A v0 \in AppendValues \cup IntVals :
        LET id == call[1]
            rd == call[2]
            k == call[3]
        IN  \A p \in {put(id, k, v0)} :
                p.res = "ok" =>
                    \A g \in {Disk(p.fs)} :
                    \A a \in {get(g, p.cache, H(rd), H(id).root \o k)} :
                        /\ a.res = "ok" /\ a.ret = v0
                        /\ AppendsAgree(g, a.cache, id, rd, k, <<v0>>, MaxAppends)
                        /\ AppendsAgree(g, p.cache, id, rd, k, <<v0>>, MaxAppends)

\* a get after a put and two appends, with the list in the cache
C30_Witness ==
    /\ last.op = "get" /\ last.res = "ok"
    /\ last.ret = ListVal(<<IntVal(1), IntVal(2), IntVal(1)>>)
    /\ fs[<<"a">>].data = <<IntVal(1), IntVal(2), IntVal(1)>>
    /\ CacheHas(CacheOf("A"), <<"a">>)

(***************************************************************************)
(* C31: update(d, max_depth=n) stores every value that is no mapping as a  *)
(* leaf, turns a mapping nested fewer than n levels deep into a subtree    *)
(* holding its entries, and stores a mapping found at nesting level n as   *)
(* one leaf; with max_depth=0 every top-level value is a leaf; an argument *)
(* that is no mapping is a ValueError, and nothing is written.             *)
(***************************************************************************)
EmptyDict == DictVal(<<>>)
LeafDict == DictVal(<<[k |-> <<"x">>, v |-> IntVal(1)]>>)
DeepDict == DictVal(<<[k |-> <<"x">>, v |-> LeafDict]>>)

\* the dicts given: one or two top-level keys, with a value, an empty dict, a
\* dict of one value or a dict of a dict to each
UpdateItems(values) == [k : {<<n>> : n \in TopNames}, v : values]
UpdateDicts(values) ==
    {DictVal(d) : d \in {e \in UNION {[1..n -> UpdateItems(values)] : n \in 1..2} :
        \A i \in 1..Len(e) : \A j \in 1..Len(e) : e[i].k = e[j].k => i = j}}

\* the entries of the dict are in the tree g below the path: subtrees down to
\* max_depth, leaves from there on
RECURSIVE Imported(_, _, _, _)
Imported(g, path, items, max_depth) ==
    \A i \in 1..Len(items) :
        LET p == path \o items[i].k
            v == items[i].v
        IN  IF IsDictVal(v) /\ max_depth >= 1
            THEN isdir(g, p) /\ Imported(g, p, v.items, max_depth - 1)
            ELSE isfile(g, p) /\ g[p].data = <<v>>

UpdateImports(values) ==
    \A d \in UpdateDicts(values) : \A max_depth \in 0..1 :
        \A r \in {NestedDictFS_update(fs, CacheOf("A"), H("A"), d, max_depth, clock)} :
            r.res = "ok" => Imported(r.fs, <<>>, d.items, max_depth)

UpdateRejects ==
    \A v \in {None, IntVal(1)} :
        \A r \in {NestedDictFS_update(fs, CacheOf("A"), H("A"), v, 0, clock)} :
            r.res = "ValueError" /\ r.fs = fs /\ r.cache = CacheOf("A")

C31_Update ==
    /\ UpdateImports({IntVal(1), EmptyDict, LeafDict, DeepDict})
    /\ UpdateRejects

(***************************************************************************)
(* C32: in every reachable state, for every key and every combination of   *)
(* the include and create flags, get_cached and get_direct have the same   *)
(* outcome: the same leaf value, a subtree handle on the same path, the    *)
(* default, or the same kind of error.  A leaf looked up with leaves       *)
(* excluded is a NotIncludeData error and a subtree looked up with         *)
(* subtrees excluded a NotIncludeChild error, cached or not.               *)
(***************************************************************************)
LookupFlags == [raise_err : BOOLEAN, include_child : BOOLEAN, include_data : BOOLEAN, create_child : BOOLEAN]
LookupDefaults == {None, IntVal(1)}

SameOutcome(a, b) ==
    /\ a.res = b.res
    /\ a.res = "ok" =>
            IF IsChildVal(a.ret) \/ IsChildVal(b.ret)
            THEN IsChildVal(a.ret) /\ IsChildVal(b.ret) /\ a.ret.path = b.ret.path
            ELSE a.ret = b.ret

CachedAsDirect(id, k, fl, dv) ==
    SameOutcome(get_cached(fs, CacheOf(id), H(id), k, dv, fl.raise_err, fl.include_child,
                           fl.include_data, fl.create_child),
                get_direct(fs, H(id), k, dv, fl.raise_err, fl.include_child,
                           fl.include_data, fl.create_child))

C32_CachedAsDirect ==
    \A id \in LookupHandles : \A k \in LookupKeys(id) : \A fl \in LookupFlags : \A dv \in LookupDefaults :
        CachedAsDirect(id, k, fl, dv)

(***************************************************************************)
(* C33: every subtree handle that get or search returns through a          *)
(* read-only handle is read-only itself - put, delete, copy and move       *)
(* through it fail with AccessViolation - also when it comes from a cache  *)
(* that a writable handle filled.                                          *)
(***************************************************************************)
\* the modifiers through the handle v that a lookup returned
ModifiersDenied(v, c) ==
    LET child == Handle(v.path, v.mode, H("R").cache)
    IN  /\ _internal_put(fs, c, child, <<"x">>, IntVal(1), FALSE, clock).res = "AccessViolation"
        /\ _internal_delete(fs, c, child, <<"x">>, FALSE, clock).res = "AccessViolation"
        /\ \A is_move \in BOOLEAN :
               _internal_copy_move(fs, c, child, <<"x">>, <<"x">>, is_move, clock).res = "AccessViolation"

C33_ReadOnlyChildren ==
    /\ \A k \in LookupKeys("R") :
           \A g \in {get(fs, CacheOf("R"), H("R"), k)} :
               (g.res = "ok" /\ IsChildVal(g.ret) /\ Len(g.ret.path) < MaxDepth)
                   => ModifiersDenied(g.ret, g.cache)
    /\ \A s \in {search(fs, CacheOf("R"), H("R"), <<Slice>>, TRUE, TRUE, TRUE, TRUE)} :
           s.res = "ok" =>
               \A i \in 1..Len(s.ret) :
                   (IsChildVal(s.ret[i].value) /\ Len(s.ret[i].value.path) < MaxDepth)
                       => ModifiersDenied(s.ret[i].value, s.cache)

(***************************************************************************)
(* C34: whenever copy or move fails, with whatever error, the filesystem   *)
(* is as it was before the call - also when the destination is an empty    *)
(* subtree that is the source itself or lies inside the source.            *)
(***************************************************************************)
FailsClean(id, s, d, is_move) ==
    \A r \in {copy_move(id, s, d, is_move)} : r.res # "ok" => r.fs = fs

C34_FailedCopyMove ==
    \A id \in TreeHandles : \A s \in Keys(id) : \A d \in Keys(id) : \A is_move \in BOOLEAN :
        InBounds(KeyPath(id, s), KeyPath(id, d), is_move) => FailsClean(id, s, d, is_move)

(***************************************************************************)
(* C35.  put with the empty key () never writes a file at the root path of *)
(* the handle it goes through, whether the root directory is there or has  *)
(* not been made yet: after the call the root path is no leaf, or it holds *)
(* the leaf it held before.                                                *)
(***************************************************************************)
RootKept(id, v) ==
    \A r \in {put(id, <<>>, v)} :
        isfile(r.fs, H(id).root) => r.fs[H(id).root] = fs[H(id).root]

C35_RootNeverLeaf == \A id \in TreeHandles : \A v \in TreeValues : RootKept(id, v)

(***************************************************************************)
(* C36.  The outcome of put, delete, copy and move - the success or the    *)
(* error raised, and the tree afterwards - depends on the tree and the     *)
(* arguments only: run on the cache of one handle, on the cache of the     *)
(* other or on an empty cache, a call raises the same and leaves the same  *)
(* tree.                                                                   *)
(***************************************************************************)
SameEffect(a, b) == a.res = b.res /\ a.fs = b.fs

\* the keys the handles of SpecCache write, and one that stays absent
ModifierKeys == LookupKeys("A") \cup {<<"b">>}

\* the three runs of one call raise the same and leave the same tree
AllSame(a, b, e) == SameEffect(a, b) /\ SameEffect(a, e)

PutOfTree(h, c, d) ==
    \A k \in ModifierKeys : \A v \in CacheValues :
        AllSame(_internal_put(fs, c, h, k, v, FALSE, clock),
                _internal_put(fs, d, h, k, v, FALSE, clock),
                _internal_put(fs, <<>>, h, k, v, FALSE, clock))

DeleteOfTree(h, c, d) ==
    \A k \in ModifierKeys : \A ig \in BOOLEAN :
        AllSame(_internal_delete(fs, c, h, k, ig, clock),
                _internal_delete(fs, d, h, k, ig, clock),
                _internal_delete(fs, <<>>, h, k, ig, clock))

CopyMoveOfTree(h, c, d) ==
    \A s \in ModifierKeys : \A t \in ModifierKeys : \A is_move \in BOOLEAN :
        InBounds(s, t, is_move) =>
            AllSame(_internal_copy_move(fs, c, h, s, t, is_move, clock),
                    _internal_copy_move(fs, d, h, s, t, is_move, clock),
                    _internal_copy_move(fs, <<>>, h, s, t, is_move, clock))

C36_ModifiersOfTree ==
    \A c \in {cache["cA"]} : \A d \in {cache["cB"]} :
        PutOfTree(H("A"), c, d) /\ DeleteOfTree(H("A"), c, d) /\ CopyMoveOfTree(H("A"), c, d)

\* a leaf one handle has in its cache was written anew through the other,
\* whose cache does not hold it
C36_Witness ==
    /\ last.op = "put" /\ last.res = "ok"
    /\ \E p \in Paths :
        /\ isfile(fs, p)
        /\ \E c \in CacheIds : CacheHas(cache[c], p) /\ CacheAt(cache[c], p).stat # stat(fs, p)
        /\ \E c \in CacheIds : ~CacheHas(cache[c], p)

(***************************************************************************)
(* C37.  Two get(k) calls in a row on a leaf through one handle, nothing   *)
(* changing the path in between: the first leaves the value it returns in  *)
(* the cache under the stat of the path, the second returns that cached    *)
(* object and leaves the entry in place.                                   *)
(***************************************************************************)
ServedFromCache(p, r1, r2) ==
    /\ r1.res = "ok" /\ r2.res = "ok"
    /\ CacheHas(r1.cache, p)
    /\ CacheAt(r1.cache, p).stat = stat(fs, p)
    /\ CacheAt(r1.cache, p).val = r1.ret
    /\ r2.ret = CacheAt(r1.cache, p).val
    /\ CacheHas(r2.cache, p)
    /\ CacheAt(r2.cache, p) = CacheAt(r1.cache, p)

GetTwice(id, k) ==
    \A r1 \in {get(fs, CacheOf(id), H(id), k)} :
        \A r2 \in {get(fs, r1.cache, H(id), k)} : ServedFromCache(KeyPath(id, k), r1, r2)

C37_SecondGetCached ==
    \A id \in LookupHandles : \A k \in Keys(id) \ {<<>>} :
        isfile(fs, KeyPath(id, k)) => GetTwice(id, k)

(***************************************************************************)
(* SpecGenerator: a search generator consumed one step at a time.  While   *)
(* it runs, last holds its position: the queue q of (pre_k, slice_list),   *)
(* the items found for a final element and not yielded yet, and what was   *)
(* yielded.  The tree is written only between two searches.                *)
(***************************************************************************)
Gen(id, res, out, queue, pending, p) ==
    [op |-> "search", h |-> id, res |-> res, ret |-> out, q |-> queue, pending |-> pending,
     include_child |-> p.include_child, include_data |-> p.include_data]

Running == last.op = "search" /\ last.res = "running"

\* as Enqueued, every item keeping the list of the item it was expanded from
Enqueued_same_list(sub_items, slice_list) ==
    [i \in 1..Len(sub_items) |-> [pre_k |-> sub_items[i].k, slice_list |-> slice_list]]

\* q.extend((joined_k, next_slice_list) for joined_k, cur_path in sub_items)
Enqueued(sub_items, slice_list) ==
    [i \in 1..Len(sub_items) |-> [pre_k |-> sub_items[i].k, slice_list |-> Tail(slice_list)]]

\* the call of search and the code ahead of the loop
GenStart(id, item, p) ==
    /\ ~Running
    /\ last' = IF _internal_verify_search_item(item) # "ok"
               THEN Gen(id, _internal_verify_search_item(item), <<>>, <<>>, <<>>, p)
               ELSE IF Len(item) = 0
               THEN Gen(id, "running", <<>>, <<>>, <<Found(<<>>, H(id).root)>>, p)
               ELSE Gen(id, "running", <<>>,
                        <<[pre_k |-> <<>>, slice_list |-> _split_list_by_search_type(item)]>>, <<>>, p)
    /\ UNCHANGED <<fs, cache, clock, handles>>

\* one item is yielded; the error of its lookup ends the generator
GenYield ==
    /\ Running /\ last.pending # <<>>
    /\ LET y == _yield_item(fs, CacheOf(last.h), H(last.h), Head(last.pending).k,
                            Head(last.pending).path, TRUE, TRUE)
       IN  /\ last' = IF y.res # "ok"
                      THEN [last EXCEPT !.res = y.res]
                      ELSE [last EXCEPT !.ret = Append(@, y.ret), !.pending = Tail(@)]
           /\ cache' = [cache EXCEPT ![H(last.h).cache] = y.cache]
    /\ UNCHANGED <<fs, clock, handles>>

\* one turn of the loop: the head of q is taken and expanded
GenExpand ==
    /\ Running /\ last.pending = <<>> /\ last.q # <<>>
    /\ LET h == H(last.h)
           pre_k == Head(last.q).pre_k
           cur_k == Head(Head(last.q).slice_list)
           is_final == Tail(Head(last.q).slice_list) = <<>>
           g == get_child(fs, CacheOf(last.h), h, pre_k)
           child == Handle(g.ret.path, g.ret.mode, h.cache)
           found == sub_items_of(fs, child, cur_k,
                                 IF is_final THEN last.include_child ELSE TRUE,
                                 IF is_final THEN last.include_data ELSE FALSE)
           sub_items == [i \in 1..Len(found) |-> Found(pre_k \o found[i].k, found[i].path)]
       IN  /\ last' = IF g.res # "ok" THEN [last EXCEPT !.res = g.res]
                      ELSE IF is_final THEN [last EXCEPT !.q = Tail(@), !.pending = sub_items]
                      ELSE [last EXCEPT !.q = Tail(@) \o Enqueued(sub_items, Head(last.q).slice_list)]
           /\ cache' = [cache EXCEPT ![h.cache] = g.cache]
    /\ UNCHANGED <<fs, clock, handles>>

\* the queue is empty: the generator is exhausted
GenStop ==
    /\ Running /\ last.pending = <<>> /\ last.q = <<>>
    /\ last' = [last EXCEPT !.res = "ok"]
    /\ UNCHANGED <<fs, cache, clock, handles>>

GenQueries ==
    {<<>>, <<Slice>>, <<EllipsisTok>>, <<Slice, Exact("x")>>, <<EllipsisTok, Exact("x")>>,
     <<Exact("x"), Slice>>, <<Slice, Slice>>, <<EllipsisTok, EllipsisTok>>}

\* the tree searched: a leaf x below a, a leaf b, and what delete leaves of them
GenKeys == {<<"a", "x">>, <<"b">>}

GenPut == ~Running /\ \E k \in GenKeys : Put("A", k, IntVal(1), 0)
GenDelete == ~Running /\ \E k \in GenKeys : Delete("A", k, FALSE, 0)
GenSearch == \E item \in GenQueries : \E p \in Projections : GenStart("A", item, p)
GenNext == GenYield \/ GenExpand \/ GenStop

NextGenerator == GenPut \/ GenDelete \/ GenSearch \/ GenNext

\* the consumer goes on asking for the next item
SpecGenerator == Init /\ [][NextGenerator]_vars /\ WF_vars(GenNext)

(***************************************************************************)
(* C38.  On a tree that does not change during the traversal a search      *)
(* generator that is consumed comes to its end for every query: each item  *)
(* put on the queue has a strictly shorter list of remaining elements than *)
(* the item it was expanded from, and the queue becomes empty.             *)
(***************************************************************************)
\* the items a turn of the loop put on the queue are shorter than the one taken
ShorterEnqueued ==
    Running /\ last.pending = <<>> /\ last.q # <<>> /\ last'.op = "search" =>
        \A i \in Len(last.q)..Len(last'.q) :
            Len(last'.q[i].slice_list) < Len(Head(last.q).slice_list)

C38_SearchTerminates == [][ShorterEnqueued]_vars /\ (Running ~> ~Running)

\* a search of two elements has put items on the queue and has come to its end
C38_Witness ==
    /\ last.op = "search" /\ last.res = "ok"
    /\ "q" \in DOMAIN last /\ last.q = <<>>
    /\ Len(last.ret) >= 2
    /\ \E i \in 1..Len(last.ret) : last.ret[i].key.t = "tuple" /\ Len(last.ret[i].key.k) = 2

(***************************************************************************)
(* SpecRead: the reading calls through a writable handle, a read-only one  *)
(* and a subtree handle, on the trees that puts and deletes build.         *)
(***************************************************************************)
ReadHandles == {"A", "R", "S"}
ReadKeys(id) == {k \in Keys(id) : IsPrefix(H(id).root \o k, <<"a", "x">>)}
ReadQueries == {<<Slice>>, <<EllipsisTok>>, <<Slice, Exact("x")>>}

\* get(item, create_child=...)
ReadGet ==
    \E id \in ReadHandles : \E k \in ReadKeys(id) : \E create_child \in BOOLEAN :
        \E r \in {get_cached(fs, CacheOf(id), H(id), k, None, FALSE, TRUE, TRUE, create_child)} :
            Lookup(id, r, Call("get", id, r))

\* get_data(item)
ReadGetData ==
    \E id \in ReadHandles : \E k \in ReadKeys(id) :
        \E r \in {get_cached(fs, CacheOf(id), H(id), k, None, TRUE, FALSE, TRUE, FALSE)} :
            Lookup(id, r, Call("get_data", id, r))

\* exists, child_exists and value_exists: the cache is not looked at
ReadExists ==
    \E id \in ReadHandles : \E k \in ReadKeys(id) :
        \E call \in {Call("exists", id, item_exists(fs, H(id), k)),
                     Call("child_exists", id, child_exists(fs, H(id), k)),
                     Call("value_exists", id, value_exists(fs, H(id), k))} :
            /\ last' = call
            /\ UNCHANGED <<fs, cache, clock, handles>>

\* len(handle)
ReadLen ==
    \E id \in ReadHandles :
        /\ last' = Call("len", id, Ret(Len(_internal_list_dir(fs, H(id)))))
        /\ UNCHANGED <<fs, cache, clock, handles>>

ReadWalk == \E id \in ReadHandles : \E p \in Projections : Walk(id, p.include_child, p.include_data, TRUE, TRUE)
ReadSearch ==
    \E id \in ReadHandles : \E item \in ReadQueries : \E p \in Projections :
        Search(id, item, p.include_child, p.include_data, TRUE, TRUE)

ReadPut == \E k \in ReadKeys("A") : Put("A", k, IntVal(1), 0)
ReadDelete == \E k \in ReadKeys("A") : Delete("A", k, FALSE, 0)

NextRead ==
    \/ ReadPut \/ ReadDelete
    \/ ReadGet \/ ReadGetData \/ ReadExists \/ ReadLen \/ ReadWalk \/ ReadSearch

SpecRead == Init /\ [][NextRead]_vars

(***************************************************************************)
(* C39.  get, get_data, exists, child_exists, value_exists, len, walk and  *)
(* search leave the tree on disk as it is, through writable handles as     *)
(* through read-only ones; all they change is the cache of the handle.     *)
(***************************************************************************)
ReadOps == {"get", "get_data", "exists", "child_exists", "value_exists", "len", "walk", "search"}

ReadKeepsTree ==
    last'.op \in ReadOps =>
        /\ fs' = fs
        /\ \A c \in CacheIds \ {H(last'.h).cache} : cache'[c] = cache[c]

ExistsRaises(id, k) ==
    /\ item_exists(fs, H(id), k).res = "DataSubItem"
    /\ child_exists(fs, H(id), k).res = "DataSubItem"
    /\ value_exists(fs, H(id), k).res = "DataSubItem"

ExistsClassifies(id, k) ==
    /\ item_exists(fs, H(id), k) = Ret(fs[KeyPath(id, k)].kind \in {"file", "dir"})
    /\ child_exists(fs, H(id), k) = Ret(fs[KeyPath(id, k)].kind = "dir")
    /\ value_exists(fs, H(id), k) = Ret(fs[KeyPath(id, k)].kind = "file")

C40_ExistsOutcome ==
    \A id \in ReadHandles : \A k \in Keys(id) :
        IF Len(k) > 1 /\ HasLeafPrefix(id, k) THEN ExistsRaises(id, k) ELSE ExistsClassifies(id, k)

\* exists of a key below a leaf was called and raised
C40_Witness ==
    /\ last.op \in {"exists", "child_exists", "value_exists"}
    /\ last.res = "DataSubItem"
    /\ \E k \in Keys(last.h) : Len(k) > 1 /\ HasLeafPrefix(last.h, k)

====
